---- MODULE Spec2Model ----
(***************************************************************************)
(* A model of the rsws WebSocket connection state machine                  *)
(* (src/src/connection/connection.rs) together with the parts of the       *)
(* codec, frame validator, frame builder, assembler and UTF-8 validator    *)
(* that recv / send / close drive.                                         *)
(*                                                                         *)
(* Bytes are integers 0..255, payloads are sequences of bytes.  The        *)
(* transport is the external collaborator: every write, flush and read     *)
(* the connection issues is recorded, in order and with its outcome, in    *)
(* the io log of the call being executed.                                  *)
(***************************************************************************)
EXTENDS Integers, Sequences, FiniteSets, TLC

\* ------------------------------------------------------------------------
\* Configuration of the modelled connection (Config / Limits values)
\* ------------------------------------------------------------------------
MaxFrameSize == 126
\* a max_frame_size configured below the fragment size
SmallMaxFrameSize == 1
MaxMessageSize == 3
MaxFragmentCount == 2
FragmentSize == 2

\* frame.rs: maximum payload of a control frame
MAX_CONTROL_FRAME_PAYLOAD == 125

\* Inputs of the fragmenter taken on its own: payloads up to MaxPayloadLen
\* bytes, fragment sizes 1..MaxFragSize
MaxPayloadLen == 4
MaxFragSize == 3

\* A call's input failAt = k > 0 makes the k-th transport write/flush the
\* call (or loop pass) issues fail; 0 = none fails.  Largest k tried:
MaxFailAt == 2

\* Inputs of the UTF-8 validator taken on its own: byte strings up to
\* MaxUtf8Len bytes
MaxUtf8Len == 4

\* The extension registry taken on its own: at most MaxExtensions
\* extensions registered, offers and responses listing at most MaxOffers
MaxExtensions == 3
MaxOffers == 2

\* The deflate streams taken on their own: a stream is followed through at
\* most MaxStreamUses messages
MaxStreamUses == 3

\* Frames on the wire, byte by byte: payloads of up to MaxWirePayload bytes,
\* which reaches the 16-bit length form (payloads over 125 bytes)
MaxWirePayload == 126

\* A codec writes at most MaxMaskedFrames frames
MaxMaskedFrames == 3

\* An extension offer carries at most MaxParams parameters
MaxParams == 2

\* A handshake response lists at most MaxHeaderExtensions extensions
MaxHeaderExtensions == 2

\* Two connections joined by a transport: at most MaxInFlight messages are
\* sent on one of them
MaxInFlight == 2

Zeros(n) == [i \in 1..n |-> 0]

\* ------------------------------------------------------------------------
\* State
\* ------------------------------------------------------------------------
VARIABLES
  role,                    \* codec.role
  accept_unmasked_frames,  \* config.accept_unmasked_frames
  max_frame_size,          \* config.limits.max_frame_size
  extensions,              \* Connection.extensions: the extension registry
  state,                   \* Connection.state
  pending_pong,            \* Connection.pending_pong
  read_buf,                \* codec.read_buf: the unconsumed wire frame, if any
  assembler,               \* Connection.assembler
  pc,                      \* "idle", or "recv" while recv's loop is running
  last                     \* the call being executed or last completed:
                           \*   op, arg, state before it, result, transport log

vars == <<role, accept_unmasked_frames, max_frame_size, extensions, state,
          pending_pong, read_buf, assembler, pc, last>>

config == <<role, accept_unmasked_frames, max_frame_size, extensions>>

\* ------------------------------------------------------------------------
\* connection/state.rs, connection/role.rs
\* ------------------------------------------------------------------------
ConnectionState == {"Connecting", "Open", "Closing", "Closed"}

\* mutant: Closing taken for a state that may still send
can_send_Mutant(s) == s \in {"Open", "Closing"}

can_send(s) == s = "Open"

\* mutant: Closed taken for a state that may still receive
can_receive_Mutant(s) == s \in {"Open", "Closing", "Closed"}

can_receive(s) == s \in {"Open", "Closing"}

Role == {"Client", "Server"}

must_mask(r) == r = "Client"

\* ------------------------------------------------------------------------
\* protocol/opcode.rs
\* ------------------------------------------------------------------------
OpCode == {"Continuation", "Text", "Binary", "Close", "Ping", "Pong"}

\* OpCode::from_u8 on the low nibble of byte0; "Reserved" stands for
\* Err(ReservedOpcode)
OpCode_from_u8(b) ==
  CASE b = 0 -> "Continuation"
    [] b = 1 -> "Text"
    [] b = 2 -> "Binary"
    [] b = 8 -> "Close"
    [] b = 9 -> "Ping"
    [] b = 10 -> "Pong"
    [] OTHER -> "Reserved"

OpCode_as_u8(o) ==
  CASE o = "Continuation" -> 0
    [] o = "Text" -> 1
    [] o = "Binary" -> 2
    [] o = "Close" -> 8
    [] o = "Ping" -> 9
    [] o = "Pong" -> 10

is_control(o) == o \in {"Close", "Ping", "Pong"}

is_data(o) == o \in {"Continuation", "Text", "Binary"}

\* ------------------------------------------------------------------------
\* message.rs: CloseCode, CloseFrame, Message
\* ------------------------------------------------------------------------
CloseCode_from_u16(code) ==
  CASE code = 1000 -> [v |-> "Normal", n |-> 0]
    [] code = 1001 -> [v |-> "GoingAway", n |-> 0]
    [] code = 1002 -> [v |-> "ProtocolError", n |-> 0]
    [] code = 1003 -> [v |-> "UnsupportedData", n |-> 0]
    [] code = 1007 -> [v |-> "InvalidPayload", n |-> 0]
    [] code = 1008 -> [v |-> "PolicyViolation", n |-> 0]
    [] code = 1009 -> [v |-> "MessageTooBig", n |-> 0]
    [] code = 1010 -> [v |-> "MandatoryExtension", n |-> 0]
    [] code = 1011 -> [v |-> "InternalError", n |-> 0]
    [] OTHER -> [v |-> "Other", n |-> code]

CloseCode_as_u16(c) ==
  CASE c.v = "Normal" -> 1000
    [] c.v = "GoingAway" -> 1001
    [] c.v = "ProtocolError" -> 1002
    [] c.v = "UnsupportedData" -> 1003
    [] c.v = "InvalidPayload" -> 1007
    [] c.v = "PolicyViolation" -> 1008
    [] c.v = "MessageTooBig" -> 1009
    [] c.v = "MandatoryExtension" -> 1010
    [] c.v = "InternalError" -> 1011
    [] c.v = "Other" -> c.n

is_reserved(c) ==
  LET code == CloseCode_as_u16(c)
  IN (code >= 1004 /\ code <= 1006) \/ code = 1015

\* Option<CloseFrame>: some = FALSE is None
NoCloseFrame == [some |-> FALSE, code |-> CloseCode_from_u16(1000), reason |-> <<>>]

CloseFrame_new(code, reason) == [some |-> TRUE, code |-> code, reason |-> reason]

\* Message values; payload is used by Text/Binary/Ping/Pong, close by Close
NoMessage == [type |-> "None", payload |-> <<>>, close |-> NoCloseFrame]

Message_Text(p) == [type |-> "Text", payload |-> p, close |-> NoCloseFrame]

Message_Binary(p) == [type |-> "Binary", payload |-> p, close |-> NoCloseFrame]

Message_Ping(p) == [type |-> "Ping", payload |-> p, close |-> NoCloseFrame]

Message_Pong(p) == [type |-> "Pong", payload |-> p, close |-> NoCloseFrame]

Message_Close(cf) == [type |-> "Close", payload |-> <<>>, close |-> cf]

Message_is_control(m) == m.type \in {"Ping", "Pong", "Close"}

Message_is_text(m) == m.type = "Text"

\* ------------------------------------------------------------------------
\* protocol/frame.rs: Frame and its builders
\* ------------------------------------------------------------------------
Frame_new(fin, opcode, payload) ==
  [fin |-> fin, rsv1 |-> FALSE, rsv2 |-> FALSE, rsv3 |-> FALSE,
   opcode |-> opcode, payload |-> payload]

NoFrame == Frame_new(FALSE, "None", <<>>)

\* u16::to_be_bytes
to_be_bytes(code) == <<code \div 256, code % 256>>

\* u16::from_be_bytes
from_be_bytes(hi, lo) == hi * 256 + lo

\* mutant: the reason is not appended to the status code
Frame_close_Mutant(code, reason) ==
  [fin |-> TRUE, rsv1 |-> FALSE, rsv2 |-> FALSE, rsv3 |-> FALSE,
   opcode |-> "Close",
   payload |-> IF code.some THEN <<code.val \div 256, code.val % 256>> ELSE <<>>]

\* Frame::close(code: Option<u16>, reason); code.some = FALSE is None
Frame_close(code, reason) ==
  Frame_new(TRUE, "Close",
            IF code.some THEN to_be_bytes(code.val) \o reason ELSE <<>>)

Some(x) == [some |-> TRUE, val |-> x]

None == [some |-> FALSE, val |-> 0]

Frame_pong(data) == Frame_new(TRUE, "Pong", data)

\* Frame::validate
Frame_validate(f) ==
  IF f.rsv1 \/ f.rsv2 \/ f.rsv3 THEN "ReservedBitsSet"
  ELSE IF is_control(f.opcode) /\ ~f.fin THEN "FragmentedControlFrame"
  ELSE IF is_control(f.opcode) /\ Len(f.payload) > MAX_CONTROL_FRAME_PAYLOAD
       THEN "ControlFrameTooLarge"
  ELSE "Ok"

\* Lowering of a Message to a Frame (From<Message> for Frame) and
\* Message::payload: the one frame per message the builders produce.
Frame_from_Message(m) ==
  CASE m.type = "Text" -> Frame_new(TRUE, "Text", m.payload)
    [] m.type = "Binary" -> Frame_new(TRUE, "Binary", m.payload)
    [] m.type = "Ping" -> Frame_new(TRUE, "Ping", m.payload)
    [] m.type = "Pong" -> Frame_new(TRUE, "Pong", m.payload)
    [] m.type = "Close" ->
         IF m.close.some
         THEN Frame_close(Some(CloseCode_as_u16(m.close.code)), m.close.reason)
         ELSE Frame_close(None, <<>>)

Message_payload(m) == m.payload

\* ------------------------------------------------------------------------
\* std::str::from_utf8 as used by utf8.rs and connection.rs:
\* result [ok, valid_up_to, error_len]; error_len = 0 stands for None
\* (input ended inside a sequence that was valid so far).
\* ------------------------------------------------------------------------
IsCont(b) == b >= 128 /\ b <= 191

SecondOf3(first, b) ==
  \/ first = 224 /\ b >= 160 /\ b <= 191
  \/ first >= 225 /\ first <= 236 /\ IsCont(b)
  \/ first = 237 /\ b >= 128 /\ b <= 159
  \/ first >= 238 /\ first <= 239 /\ IsCont(b)

SecondOf4(first, b) ==
  \/ first = 240 /\ b >= 144 /\ b <= 191
  \/ first >= 241 /\ first <= 243 /\ IsCont(b)
  \/ first = 244 /\ b >= 128 /\ b <= 143

RECURSIVE run_utf8_validation(_, _)
run_utf8_validation(v, i) ==
  IF i >= Len(v) THEN [ok |-> TRUE, valid_up_to |-> i, error_len |-> 0]
  ELSE
    LET first == v[i + 1]
        has(k) == i + k <= Len(v)
        at(k) == v[i + k]
        err(n) == [ok |-> FALSE, valid_up_to |-> i, error_len |-> n]
    IN IF first < 128 THEN run_utf8_validation(v, i + 1)
       ELSE IF first >= 194 /\ first <= 223 THEN
         IF ~has(2) THEN err(0)
         ELSE IF ~IsCont(at(2)) THEN err(1)
         ELSE run_utf8_validation(v, i + 2)
       ELSE IF first >= 224 /\ first <= 239 THEN
         IF ~has(2) THEN err(0)
         ELSE IF ~SecondOf3(first, at(2)) THEN err(1)
         ELSE IF ~has(3) THEN err(0)
         ELSE IF ~IsCont(at(3)) THEN err(2)
         ELSE run_utf8_validation(v, i + 3)
       ELSE IF first >= 240 /\ first <= 244 THEN
         IF ~has(2) THEN err(0)
         ELSE IF ~SecondOf4(first, at(2)) THEN err(1)
         ELSE IF ~has(3) THEN err(0)
         ELSE IF ~IsCont(at(3)) THEN err(2)
         ELSE IF ~has(4) THEN err(0)
         ELSE IF ~IsCont(at(4)) THEN err(3)
         ELSE run_utf8_validation(v, i + 4)
       ELSE err(1)

from_utf8(v) == run_utf8_validation(v, 0)

\* ------------------------------------------------------------------------
\* protocol/utf8.rs: Utf8Validator::validate
\* incomplete is the saved prefix incomplete[..incomplete_len]
\* ------------------------------------------------------------------------
\* mutant: the bytes saved from the previous fragment are not prepended
Utf8Validator_validate_Mutant(incomplete, data, is_final) ==
  LET check_data == data
      r == from_utf8(check_data)
      remaining == SubSeq(check_data, r.valid_up_to + 1, Len(check_data))
  IN IF check_data = <<>> THEN [ok |-> TRUE, incomplete |-> <<>>]
     ELSE IF r.ok THEN [ok |-> TRUE, incomplete |-> <<>>]
     ELSE IF ~is_final /\ r.error_len = 0 /\ Len(remaining) <= 4
          THEN [ok |-> TRUE, incomplete |-> remaining]
     ELSE [ok |-> FALSE, incomplete |-> <<>>]

Utf8Validator_validate(incomplete, data, is_final) ==
  LET check_data == incomplete \o data
      r == from_utf8(check_data)
      remaining == SubSeq(check_data, r.valid_up_to + 1, Len(check_data))
  IN IF check_data = <<>> THEN [ok |-> TRUE, incomplete |-> <<>>]
     ELSE IF r.ok THEN [ok |-> TRUE, incomplete |-> <<>>]
     ELSE IF ~is_final /\ r.error_len = 0 /\ Len(remaining) <= 4
          THEN [ok |-> TRUE, incomplete |-> remaining]
     ELSE [ok |-> FALSE, incomplete |-> <<>>]

\* ------------------------------------------------------------------------
\* config.rs: Limits checks ("Ok" or the error kind)
\* ------------------------------------------------------------------------
check_message_size(size) ==
  IF size > MaxMessageSize THEN "MessageTooLarge" ELSE "Ok"

check_frame_size(size) ==
  IF size > max_frame_size THEN "FrameTooLarge" ELSE "Ok"

check_fragment_count(count) ==
  IF count > MaxFragmentCount THEN "TooManyFragments" ELSE "Ok"

\* ------------------------------------------------------------------------
\* protocol/validation.rs: FrameValidator
\* ------------------------------------------------------------------------
\* mutant: the Client arm is missing, a Client takes masked frames
validate_masking_Mutant(r, accept_unmasked, masked) ==
  IF r = "Server"
  THEN IF ~masked /\ ~accept_unmasked THEN "UnmaskedClientFrame" ELSE "Ok"
  ELSE "Ok"

validate_masking(r, accept_unmasked, masked) ==
  IF r = "Server"
  THEN IF ~masked /\ ~accept_unmasked THEN "UnmaskedClientFrame" ELSE "Ok"
  ELSE IF masked THEN "MaskedServerFrame" ELSE "Ok"

validate_rsv_bits(rsv1, rsv2, rsv3) ==
  IF rsv1 \/ rsv2 \/ rsv3 THEN "ReservedBitsSet" ELSE "Ok"

validate_incoming(r, accept_unmasked, masked, rsv1, rsv2, rsv3, payload_len) ==
  IF validate_masking(r, accept_unmasked, masked) /= "Ok"
  THEN validate_masking(r, accept_unmasked, masked)
  ELSE IF validate_rsv_bits(rsv1, rsv2, rsv3) /= "Ok"
  THEN validate_rsv_bits(rsv1, rsv2, rsv3)
  ELSE check_frame_size(payload_len)

\* ------------------------------------------------------------------------
\* protocol/assembler.rs: MessageAssembler
\* ------------------------------------------------------------------------
NoValidator == [some |-> FALSE, incomplete |-> <<>>]

MessageAssembler_new ==
  [buffer |-> <<>>, fragment_count |-> 0, opcode |-> "None", total_size |-> 0,
   utf8_validator |-> NoValidator]

PushErr(a, e) == [asm |-> a, k |-> "Err", err |-> e, opcode |-> "None", payload |-> <<>>]

PushNone(a) == [asm |-> a, k |-> "None", err |-> "", opcode |-> "None", payload |-> <<>>]

PushSome(a, opcode, payload) ==
  [asm |-> a, k |-> "Some", err |-> "", opcode |-> opcode, payload |-> payload]

\* the assembler after the frame's payload went through the validator
PushValidator(a1, v) ==
  IF a1.utf8_validator.some
  THEN [a1 EXCEPT !.utf8_validator.incomplete = v.incomplete]
  ELSE a1

\* mutant: the fragment is put in front of the bytes buffered so far
PushValidated_Mutant(a1, frame, v) ==
  IF ~v.ok THEN PushErr(PushValidator(a1, v), "InvalidUtf8")
  ELSE IF frame.fin
  THEN PushSome(MessageAssembler_new, a1.opcode, frame.payload \o a1.buffer)
  ELSE PushNone([PushValidator(a1, v) EXCEPT
                   !.total_size = a1.total_size + Len(frame.payload),
                   !.buffer = frame.payload \o a1.buffer,
                   !.fragment_count = a1.fragment_count + 1])

\* the part of push after the limit checks; v is the validator's verdict
PushValidated(a1, frame, v) ==
  IF ~v.ok THEN PushErr(PushValidator(a1, v), "InvalidUtf8")
  ELSE IF frame.fin
  THEN PushSome(MessageAssembler_new, a1.opcode, a1.buffer \o frame.payload)
  ELSE PushNone([PushValidator(a1, v) EXCEPT
                   !.total_size = a1.total_size + Len(frame.payload),
                   !.buffer = a1.buffer \o frame.payload,
                   !.fragment_count = a1.fragment_count + 1])

\* mutant: the size limit is taken as exclusive
PushChecked_Mutant(a1, frame) ==
  IF check_fragment_count(a1.fragment_count + 1) /= "Ok"
  THEN PushErr(a1, check_fragment_count(a1.fragment_count + 1))
  ELSE IF check_message_size(a1.total_size + Len(frame.payload) + 1) /= "Ok"
  THEN PushErr(a1, check_message_size(a1.total_size + Len(frame.payload) + 1))
  ELSE PushValidated(a1, frame,
         IF a1.utf8_validator.some
         THEN Utf8Validator_validate(a1.utf8_validator.incomplete,
                                     frame.payload, frame.fin)
         ELSE [ok |-> TRUE, incomplete |-> <<>>])

\* the part of push after the opcode sequencing checks
PushChecked(a1, frame) ==
  IF check_fragment_count(a1.fragment_count + 1) /= "Ok"
  THEN PushErr(a1, check_fragment_count(a1.fragment_count + 1))
  ELSE IF check_message_size(a1.total_size + Len(frame.payload)) /= "Ok"
  THEN PushErr(a1, check_message_size(a1.total_size + Len(frame.payload)))
  ELSE PushValidated(a1, frame,
         IF a1.utf8_validator.some
         THEN Utf8Validator_validate(a1.utf8_validator.incomplete,
                                     frame.payload, frame.fin)
         ELSE [ok |-> TRUE, incomplete |-> <<>>])

\* mutant: a Continuation frame is taken whether a message is in progress or not
MessageAssembler_push_Mutant(a, frame) ==
  IF is_control(frame.opcode) THEN PushNone(a)
  ELSE IF frame.opcode /= "Continuation" /\ a.opcode /= "None"
  THEN PushErr(a, "ProtocolViolation")
  ELSE PushChecked(
         IF frame.opcode = "Continuation" THEN a
         ELSE [a EXCEPT !.opcode = frame.opcode,
                        !.utf8_validator =
                            IF frame.opcode = "Text"
                            THEN [some |-> TRUE, incomplete |-> <<>>]
                            ELSE @],
         frame)

\* mutant: a control frame abandons the message in progress
MessageAssembler_push_MutantControl(a, frame) ==
  IF is_control(frame.opcode) THEN PushNone(MessageAssembler_new)
  ELSE IF (frame.opcode = "Continuation") = (a.opcode = "None")
  THEN PushErr(a, "ProtocolViolation")
  ELSE PushChecked(
         IF frame.opcode = "Continuation" THEN a
         ELSE [a EXCEPT !.opcode = frame.opcode,
                        !.utf8_validator =
                            IF frame.opcode = "Text"
                            THEN [some |-> TRUE, incomplete |-> <<>>]
                            ELSE @],
         frame)

MessageAssembler_push(a, frame) ==
  IF is_control(frame.opcode) THEN PushNone(a)
  ELSE IF (frame.opcode = "Continuation") = (a.opcode = "None")
  THEN PushErr(a, "ProtocolViolation")
  ELSE PushChecked(
         IF frame.opcode = "Continuation" THEN a
         ELSE [a EXCEPT !.opcode = frame.opcode,
                        !.utf8_validator =
                            IF frame.opcode = "Text"
                            THEN [some |-> TRUE, incomplete |-> <<>>]
                            ELSE @],
         frame)

is_assembling(a) == a.opcode /= "None"

MessageAssembler_reset(a) == MessageAssembler_new

\* ------------------------------------------------------------------------
\* connection/fragmenter.rs: MessageFragmenter as the sequence its iterator
\* yields, from (offset, is_first)
\* ------------------------------------------------------------------------
Min(a, b) == IF a <= b THEN a ELSE b

Max(a, b) == IF a >= b THEN a ELSE b

RECURSIVE MessageFragmenter_next(_, _, _, _, _)
\* mutant: is_final compares with > where the code has >=
MessageFragmenter_next_Mutant(payload, opcode, fragment_size, offset, is_first) ==
  IF offset >= Len(payload)
  THEN IF is_first /\ payload = <<>>
       THEN <<Frame_new(TRUE, opcode, <<>>)>>
       ELSE <<>>
  ELSE LET remaining == Len(payload) - offset
           chunk_size == Min(remaining, fragment_size)
           is_final == offset + chunk_size > Len(payload)
           chunk == SubSeq(payload, offset + 1, offset + chunk_size)
           op == IF is_first THEN opcode ELSE "Continuation"
       IN <<Frame_new(is_final, op, chunk)>> \o
          MessageFragmenter_next(payload, opcode, fragment_size,
                                 offset + chunk_size, FALSE)

MessageFragmenter_next(payload, opcode, fragment_size, offset, is_first) ==
  IF offset >= Len(payload)
  THEN IF is_first /\ payload = <<>>
       THEN <<Frame_new(TRUE, opcode, <<>>)>>
       ELSE <<>>
  ELSE LET remaining == Len(payload) - offset
           chunk_size == Min(remaining, fragment_size)
           is_final == offset + chunk_size >= Len(payload)
           chunk == SubSeq(payload, offset + 1, offset + chunk_size)
           op == IF is_first THEN opcode ELSE "Continuation"
       IN <<Frame_new(is_final, op, chunk)>> \o
          MessageFragmenter_next(payload, opcode, fragment_size,
                                 offset + chunk_size, FALSE)

MessageFragmenter(payload, opcode, fragment_size) ==
  MessageFragmenter_next(payload, opcode, Max(fragment_size, 1), 0, TRUE)

\* ------------------------------------------------------------------------
\* extensions/deflate.rs: DeflateExtension's frame transforms
\* ------------------------------------------------------------------------
\* deflate.rs: only final, non-empty data frames are compressed
should_compress_frame(frame) ==
  ~is_control(frame.opcode) /\ frame.fin /\ frame.payload /= <<>>

\* deflate.rs compress: the DEFLATE stream of data up to a sync flush, with
\* the flush's trailer 00 00 FF FF cut off (RFC 7692).  The stream taken
\* here is the one a compressor emits with stored blocks: block header,
\* LEN, NLEN, the data, then the header byte of the flush's empty block.
compress(data) ==
  IF data = <<>> THEN <<>>
  ELSE <<0, Len(data) % 256, Len(data) \div 256,
         255 - (Len(data) % 256), 255 - (Len(data) \div 256)>>
         \o data \o <<0>>

\* DeflateExtension::encode
DeflateExtension_encode(frame) ==
  IF ~should_compress_frame(frame) THEN frame
  ELSE [Frame_new(frame.fin, frame.opcode, compress(frame.payload))
          EXCEPT !.rsv1 = TRUE]

\* deflate.rs decompress: the marker 00 00 FF FF is appended and the stream
\* inflated; [ok, data], ok = FALSE when the bytes are no DEFLATE stream.
\* Streams are read as compress writes them: one stored block, then the
\* header byte of the flush's empty block.
decompress(data) ==
  IF data = <<>> THEN [ok |-> TRUE, data |-> <<>>]
  ELSE IF /\ Len(data) >= 6
          /\ data[1] = 0
          /\ data[4] = 255 - data[2] /\ data[5] = 255 - data[3]
          /\ Len(data) = data[2] + 256 * data[3] + 6
          /\ data[Len(data)] = 0
  THEN [ok |-> TRUE, data |-> SubSeq(data, 6, Len(data) - 1)]
  ELSE [ok |-> FALSE, data |-> <<>>]

\* ------------------------------------------------------------------------
\* deflate.rs: the encoder and decoder streams of a DeflateExtension
\* d = [is_server, server_no_context_takeover, client_no_context_takeover,
\*      encoder, decoder]; a stream is [some, uses], uses counting the
\* messages that went through it since it was created.
\* ------------------------------------------------------------------------
NoStream == [some |-> FALSE, uses |-> 0]

FreshStream == [some |-> TRUE, uses |-> 0]

\* DeflateExtension::new after negotiate / configure set the takeover flags
DeflateExtension_new(is_server, server_nct, client_nct) ==
  [is_server |-> is_server, server_no_context_takeover |-> server_nct,
   client_no_context_takeover |-> client_nct,
   encoder |-> NoStream, decoder |-> NoStream]

ensure_encoder(d) == IF d.encoder.some THEN d ELSE [d EXCEPT !.encoder = FreshStream]

ensure_decoder(d) == IF d.decoder.some THEN d ELSE [d EXCEPT !.decoder = FreshStream]

\* what compress and decompress return: the extension afterwards, Ok or
\* not, the bytes, and ctx, the messages the stream used had seen before
StreamResult(d, ok, data, ctx) == [d |-> d, ok |-> ok, data |-> data, ctx |-> ctx]

\* DeflateExtension::compress
DeflateExtension_compress(d, data) ==
  IF data = <<>> THEN StreamResult(d, TRUE, <<>>, 0)
  ELSE StreamResult(
         IF \/ d.is_server /\ d.server_no_context_takeover
            \/ ~d.is_server /\ d.client_no_context_takeover
         THEN [d EXCEPT !.encoder = NoStream]
         ELSE [d EXCEPT !.encoder = [some |-> TRUE,
                                     uses |-> ensure_encoder(d).encoder.uses + 1]],
         TRUE, compress(data), ensure_encoder(d).encoder.uses)

\* DeflateExtension::decompress: a failed inflate returns the error with
\* the decoder, which has taken the bytes in, left in place
DeflateExtension_decompress(d, data) ==
  IF data = <<>> THEN StreamResult(d, TRUE, <<>>, 0)
  ELSE IF ~decompress(data).ok
  THEN StreamResult([d EXCEPT !.decoder = [some |-> TRUE,
                                           uses |-> ensure_decoder(d).decoder.uses + 1]],
                    FALSE, <<>>, ensure_decoder(d).decoder.uses)
  ELSE StreamResult(
         IF \/ d.is_server /\ d.client_no_context_takeover
            \/ ~d.is_server /\ d.server_no_context_takeover
         THEN [d EXCEPT !.decoder = NoStream]
         ELSE [d EXCEPT !.decoder = [some |-> TRUE,
                                     uses |-> ensure_decoder(d).decoder.uses + 1]],
         TRUE, decompress(data).data, ensure_decoder(d).decoder.uses)

\* the frame DeflateExtension::decode leaves when decompress returned d
inflated(frame, d) ==
  [ok |-> d.ok, frame |-> Frame_new(frame.fin, frame.opcode, d.data)]

\* DeflateExtension::decode
DeflateExtension_decode(frame) ==
  IF ~frame.rsv1 THEN [ok |-> TRUE, frame |-> frame]
  ELSE IF is_control(frame.opcode) THEN [ok |-> FALSE, frame |-> frame]
  ELSE inflated(frame, decompress(frame.payload))

\* ------------------------------------------------------------------------
\* extensions/mod.rs: Extension, RsvBits, ExtensionRegistry.
\* An extension is [name, rsv_bits]; the one named permessage-deflate is
\* the DeflateExtension, any other leaves frames as they are.  A registry
\* is [extensions, used_rsv_bits, negotiated], negotiated holding indexes
\* into extensions.
\* ------------------------------------------------------------------------
Extension(name, rsv_bits) == [name |-> name, rsv_bits |-> rsv_bits]

\* deflate.rs: name and rsv_bits of DeflateExtension
DeflateExtension == Extension("permessage-deflate", {"rsv1"})

\* dyn Extension::rsv_bits
Extension_rsv_bits(ext) == ext.rsv_bits

\* RsvBits::conflicts_with
conflicts_with(used, other) == used \cap other /= {}

\* dyn Extension::encode
Extension_encode(ext, frame) ==
  IF ext.name = "permessage-deflate" THEN DeflateExtension_encode(frame) ELSE frame

\* dyn Extension::decode
Extension_decode(ext, frame) ==
  IF ext.name = "permessage-deflate" THEN DeflateExtension_decode(frame)
  ELSE [ok |-> TRUE, frame |-> frame]

ExtensionRegistry_new == [extensions |-> <<>>, used_rsv_bits |-> {}, negotiated |-> <<>>]

AddResult(reg, ret) == [reg |-> reg, ret |-> ret]

\* mutant: the extension is registered before the conflict is reported
ExtensionRegistry_add_Mutant(reg, ext) ==
  IF conflicts_with(reg.used_rsv_bits, Extension_rsv_bits(ext))
  THEN AddResult([reg EXCEPT !.extensions = Append(@, ext)], "InvalidExtension")
  ELSE AddResult([reg EXCEPT !.used_rsv_bits = @ \cup Extension_rsv_bits(ext),
                             !.extensions = Append(@, ext)], "Ok")

ExtensionRegistry_add(reg, ext) ==
  IF conflicts_with(reg.used_rsv_bits, Extension_rsv_bits(ext))
  THEN AddResult(reg, "InvalidExtension")
  ELSE AddResult([reg EXCEPT !.used_rsv_bits = @ \cup Extension_rsv_bits(ext),
                             !.extensions = Append(@, ext)], "Ok")

negotiated_count(reg) == Len(reg.negotiated)

\* .iter().enumerate().find(|(_, e)| e.name() == name): the index of the
\* first registered extension of that name, 0 if there is none
find_extension(exts, name) ==
  IF \E i \in DOMAIN exts : exts[i].name = name
  THEN CHOOSE i \in DOMAIN exts :
         /\ exts[i].name = name
         /\ \A j \in DOMAIN exts : exts[j].name = name => i <= j
  ELSE 0

\* the loop of negotiate: an offer is [name, ok], ok telling whether the
\* extension's negotiate and configure take the offer's parameters
RECURSIVE negotiate_offers(_, _, _)
negotiate_offers(exts, offers, negotiated) ==
  IF offers = <<>> THEN negotiated
  ELSE negotiate_offers(exts, Tail(offers),
         IF find_extension(exts, Head(offers).name) /= 0 /\ Head(offers).ok
         THEN Append(negotiated, find_extension(exts, Head(offers).name))
         ELSE negotiated)

\* ExtensionRegistry::negotiate (server side)
ExtensionRegistry_negotiate(reg, offers) ==
  [reg EXCEPT !.negotiated = negotiate_offers(reg.extensions, offers, <<>>)]

\* the loop of configure: the first extension that refuses its parameters
\* ends it with an error
RECURSIVE configure_responses(_, _, _)
configure_responses(exts, responses, negotiated) ==
  IF responses = <<>> THEN [negotiated |-> negotiated, ret |-> "Ok"]
  ELSE IF find_extension(exts, Head(responses).name) = 0
  THEN configure_responses(exts, Tail(responses), negotiated)
  ELSE IF ~Head(responses).ok
  THEN [negotiated |-> negotiated, ret |-> "InvalidExtension"]
  ELSE configure_responses(exts, Tail(responses),
         Append(negotiated, find_extension(exts, Head(responses).name)))

\* the registry after configure returned what r says
configured(reg, r) == AddResult([reg EXCEPT !.negotiated = r.negotiated], r.ret)

\* ExtensionRegistry::configure (client side)
ExtensionRegistry_configure(reg, responses) ==
  configured(reg, configure_responses(reg.extensions, responses, <<>>))

Reverse(q) == [i \in 1..Len(q) |-> q[Len(q) + 1 - i]]

\* the indexes of the extensions whose encode (decode) the loop of
\* ExtensionRegistry::encode (decode) calls, in the order of the calls
encode_order(reg) == reg.negotiated

decode_order(reg) == Reverse(reg.negotiated)

RECURSIVE encode_each(_, _, _)
encode_each(exts, order, frame) ==
  IF order = <<>> THEN frame
  ELSE encode_each(exts, Tail(order), Extension_encode(exts[Head(order)], frame))

\* ExtensionRegistry::encode
ExtensionRegistry_encode(reg, frame) ==
  encode_each(reg.extensions, encode_order(reg), frame)

RECURSIVE decode_each(_, _, _)
decode_each(exts, order, r) ==
  IF order = <<>> \/ ~r.ok THEN r
  ELSE decode_each(exts, Tail(order), Extension_decode(exts[Head(order)], r.frame))

\* ExtensionRegistry::decode: [ok, frame], ok = FALSE for Err(Extension)
ExtensionRegistry_decode(reg, frame) ==
  decode_each(reg.extensions, decode_order(reg), [ok |-> TRUE, frame |-> frame])

\* a registry as Connection::with_extensions gets it after the handshake:
\* permessage-deflate registered and negotiated
DeflateRegistry ==
  ExtensionRegistry_negotiate(
    ExtensionRegistry_add(ExtensionRegistry_new, DeflateExtension).reg,
    <<[name |-> "permessage-deflate", ok |-> TRUE]>>)

\* ------------------------------------------------------------------------
\* connection.rs: parse_close_frame, assembled_to_message
\* ------------------------------------------------------------------------
\* b"Invalid close frame"
InvalidCloseFrameReason ==
  <<73, 110, 118, 97, 108, 105, 100, 32, 99, 108, 111, 115, 101, 32,
    102, 114, 97, 109, 101>>

\* mutant: the code of the payload is kept when the reason is not UTF-8
parse_close_frame_Mutant(payload) ==
  IF Len(payload) >= 2
  THEN CloseFrame_new(CloseCode_from_u16(from_be_bytes(payload[1], payload[2])),
                      IF from_utf8(SubSeq(payload, 3, Len(payload))).ok
                      THEN SubSeq(payload, 3, Len(payload)) ELSE <<>>)
  ELSE IF payload = <<>> THEN NoCloseFrame
  ELSE CloseFrame_new(CloseCode_from_u16(1002), InvalidCloseFrameReason)

parse_close_frame(payload) ==
  IF Len(payload) >= 2
  THEN LET code == from_be_bytes(payload[1], payload[2])
           reason == SubSeq(payload, 3, Len(payload))
       IN IF from_utf8(reason).ok
          THEN CloseFrame_new(CloseCode_from_u16(code), reason)
          ELSE CloseFrame_new(CloseCode_from_u16(1007), <<>>)
  ELSE IF payload = <<>> THEN NoCloseFrame
  ELSE CloseFrame_new(CloseCode_from_u16(1002), InvalidCloseFrameReason)

\* lines 380-387: the message of an assembled opcode and payload;
\* result [k, err, msg]
payload_to_message(opcode, payload) ==
  CASE opcode = "Text" ->
         IF from_utf8(payload).ok
         THEN [k |-> "Msg", err |-> "", msg |-> Message_Text(payload)]
         ELSE [k |-> "Err", err |-> "InvalidUtf8", msg |-> NoMessage]
    [] opcode = "Binary" ->
         [k |-> "Msg", err |-> "", msg |-> Message_Binary(payload)]
    [] OTHER -> [k |-> "Err", err |-> "ProtocolViolation", msg |-> NoMessage]

\* lines 374-375: the message after extensions.decode returned d
decoded_to_message(opcode, d) ==
  IF ~d.ok THEN [k |-> "Err", err |-> "Extension", msg |-> NoMessage]
  ELSE payload_to_message(opcode, d.frame.payload)

\* assembled.rsv1: AssembledMessage as assembler.rs builds it has no such
\* field; it is taken to be the RSV1 bit of the frame that completed the
\* message (every frame pushed has passed Frame::validate)
AssembledMessage_rsv1(frame) == frame.rsv1

\* mutant: the pipeline is run whenever an extension is negotiated
assembled_to_message_Mutant(opcode, payload, rsv1) ==
  IF negotiated_count(extensions) > 0
  THEN decoded_to_message(opcode,
         ExtensionRegistry_decode(extensions,
           [Frame_new(TRUE, opcode, payload) EXCEPT !.rsv1 = TRUE]))
  ELSE payload_to_message(opcode, payload)

assembled_to_message(opcode, payload, rsv1) ==
  IF rsv1 /\ negotiated_count(extensions) > 0
  THEN decoded_to_message(opcode,
         ExtensionRegistry_decode(extensions,
           [Frame_new(TRUE, opcode, payload) EXCEPT !.rsv1 = TRUE]))
  ELSE payload_to_message(opcode, payload)

\* ------------------------------------------------------------------------
\* Results of calls and the transport log
\* ------------------------------------------------------------------------
RetOk == [k |-> "Ok", err |-> "", msg |-> NoMessage]

RetNone == [k |-> "None", err |-> "", msg |-> NoMessage]

RetErr(e) == [k |-> "Err", err |-> e, msg |-> NoMessage]

RetMsg(m) == [k |-> "Msg", err |-> "", msg |-> m]

RetPending == [k |-> "Pending", err |-> "", msg |-> NoMessage]

\* a log context: io = transport operations issued so far in this call,
\* n = write/flush operations issued in this step
\* one frame as the peer serialized it (see "Bytes arriving" below)
Wire(fin, rsv1, op, masked, payload, avail) ==
  [fin |-> fin, rsv1 |-> rsv1, rsv2 |-> FALSE, rsv3 |-> FALSE, op |-> op,
   masked |-> masked, payload |-> payload, avail |-> avail]

NoWire == Wire(FALSE, FALSE, 0, FALSE, <<>>, "short")

\* an entry of the log: the operation t, the frame written (write), what
\* arrived (rx, a read that returned bytes) and the outcome res
IoEvent(t, frame, rx, res) == [t |-> t, frame |-> frame, rx |-> rx, res |-> res]

NewLog == [io |-> <<>>, n |-> 0]

\* codec/framed.rs: write_frame hands the serialized frame to io.write_all
codec_write_frame(c, frame, failAt) ==
  LET ok == c.n + 1 /= failAt
  IN [c |-> [io |-> Append(c.io, IoEvent("write", frame, NoWire,
                                          IF ok THEN "ok" ELSE "err")),
             n |-> c.n + 1],
      ok |-> ok]

\* codec/framed.rs: flush
codec_flush(c, failAt) ==
  LET ok == c.n + 1 /= failAt
  IN [c |-> [io |-> Append(c.io, IoEvent("flush", NoFrame, NoWire,
                                          IF ok THEN "ok" ELSE "err")),
             n |-> c.n + 1],
      ok |-> ok]

\* io.read inside read_frame; res is "data" (the bytes of w arrived),
\* "eof" (n == 0) or "err"
io_read(c, res, w) ==
  [io |-> Append(c.io, IoEvent("read", NoFrame, w, res)), n |-> c.n]

\* ------------------------------------------------------------------------
\* Bytes arriving from the peer.  A wire frame is the header fields and the
\* (unmasked) payload of one frame as the peer serialized it; avail tells
\* how much of it reached read_buf: "full", "hdr" (the header with the
\* payload length, but not the whole payload) or "short" (fewer than 2
\* bytes).
\* ------------------------------------------------------------------------
\* frames a peer of the opposite role sends with the masking the role
\* r expects (m), plus one frame with the opposite masking
PeerFrames(r) ==
  LET m == (r = "Server")
  IN { Wire(TRUE, FALSE, 1, m, <<65>>, "full"),
       Wire(FALSE, FALSE, 1, m, <<195>>, "full"),
       Wire(TRUE, FALSE, 1, m, <<255>>, "full"),
       Wire(TRUE, FALSE, 0, m, <<169>>, "full"),
       Wire(TRUE, FALSE, 2, m, Zeros(MaxMessageSize + 1), "full"),
       Wire(TRUE, FALSE, 2, m, Zeros(MaxFrameSize + 1), "full"),
       Wire(TRUE, FALSE, 9, m, <<>>, "full"),
       Wire(TRUE, FALSE, 9, m, <<112>>, "full"),
       Wire(TRUE, FALSE, 10, m, <<112>>, "full"),
       Wire(TRUE, FALSE, 8, m, <<>>, "full"),
       Wire(TRUE, FALSE, 8, m, <<3>>, "full"),
       Wire(TRUE, FALSE, 8, m, <<3, 232, 255>>, "full"),
       Wire(TRUE, FALSE, 8, m, <<3, 232, 65>>, "full"),
       Wire(TRUE, FALSE, 8, m, <<3, 237>>, "full"),
       Wire(FALSE, FALSE, 9, m, <<112>>, "full"),
       Wire(TRUE, FALSE, 9, m, Zeros(MAX_CONTROL_FRAME_PAYLOAD + 1), "full"),
       Wire(TRUE, FALSE, 3, m, <<>>, "full"),
       Wire(TRUE, TRUE, 1, m, <<65>>, "full"),
       Wire(TRUE, FALSE, 1, ~m, <<65>>, "full"),
       Wire(TRUE, FALSE, 1, m, <<65, 66>>, "hdr") }

\* what one pass of the read loop gets from the transport
Arrivals(r) ==
  {[k |-> "frame", w |-> w] : w \in PeerFrames(r)} \cup
  {[k |-> "short", w |-> NoWire], [k |-> "eof", w |-> NoWire],
   [k |-> "err", w |-> NoWire]}

\* ------------------------------------------------------------------------
\* codec/framed.rs: read_frame
\* ------------------------------------------------------------------------
\* the part of the loop body that looks at a buffer holding w:
\* validate_incoming on the raw header, then Frame::parse
ParseBuffered(r, acc, w) ==
  LET v == validate_incoming(r, acc, w.masked, w.rsv1, w.rsv2, w.rsv3,
                             Len(w.payload))
  IN IF w.avail = "short" THEN [k |-> "Incomplete", err |-> "", frame |-> NoFrame]
     ELSE IF v /= "Ok" THEN [k |-> "Err", err |-> v, frame |-> NoFrame]
     ELSE IF OpCode_from_u8(w.op) = "Reserved"
     THEN [k |-> "Err", err |-> "ReservedOpcode", frame |-> NoFrame]
     ELSE IF w.avail /= "full" THEN [k |-> "Incomplete", err |-> "", frame |-> NoFrame]
     ELSE [k |-> "Frame", err |-> "",
           frame |-> [fin |-> w.fin, rsv1 |-> w.rsv1, rsv2 |-> w.rsv2,
                      rsv3 |-> w.rsv3, opcode |-> OpCode_from_u8(w.op),
                      payload |-> w.payload]]

ReadErr(e, rb, c) == [k |-> "Err", err |-> e, frame |-> NoFrame, read_buf |-> rb, c |-> c]

\* n == 0: Err(ConnectionClosed(None))
ReadEof(rb, c) ==
  [k |-> "Closed", err |-> "ConnectionClosed", frame |-> NoFrame,
   read_buf |-> rb, c |-> io_read(c, "eof", NoWire)]

codec_read_frame(r, acc, rb, arrival, c) ==
  LET buffered == ParseBuffered(r, acc, Head(rb))
      c1 == io_read(c, "data", arrival.w)
      arrived == ParseBuffered(r, acc, arrival.w)
  IN IF rb /= <<>> /\ buffered.k = "Err" THEN ReadErr(buffered.err, rb, c)
     ELSE IF arrival.k = "err" THEN ReadErr("Io", rb, io_read(c, "err", NoWire))
     ELSE IF arrival.k = "eof" THEN ReadEof(rb, c)
     ELSE IF arrived.k = "Err" THEN ReadErr(arrived.err, <<arrival.w>>, c1)
     ELSE IF arrived.k = "Incomplete" THEN ReadEof(<<arrival.w>>, c1)
     ELSE [k |-> "Frame", err |-> "", frame |-> arrived.frame,
           read_buf |-> <<>>, c |-> c1]

\* ------------------------------------------------------------------------
\* connection.rs: send_no_flush, send, send_batch, flush, close
\* each returns the log context and the call's result
\* ------------------------------------------------------------------------
\* what a call returns after its last transport operation w
IoResult(w) == [c |-> w.c, ret |-> IF w.ok THEN RetOk ELSE RetErr("Io")]

\* flush, unless the write w before it failed (the `?` after write_frame)
FlushAfter(w, failAt) == IF ~w.ok THEN w ELSE codec_flush(w.c, failAt)

RECURSIVE write_frames(_, _, _)
RECURSIVE write_frames_rest(_, _, _)
write_frames_rest(w, frames, failAt) ==
  IF ~w.ok THEN w ELSE write_frames(w.c, frames, failAt)

\* mutant: the frames are written last to first
write_frames_Mutant(c, frames, failAt) ==
  IF frames = <<>> THEN [c |-> c, ok |-> TRUE]
  ELSE write_frames_rest(codec_write_frame(c, frames[Len(frames)], failAt),
                         SubSeq(frames, 1, Len(frames) - 1), failAt)

write_frames(c, frames, failAt) ==
  IF frames = <<>> THEN [c |-> c, ok |-> TRUE]
  ELSE write_frames_rest(codec_write_frame(c, Head(frames), failAt),
                         Tail(frames), failAt)

\* mutant: is_first is never cleared, every fragment is encoded
RECURSIVE encode_fragments_Mutant(_, _)
encode_fragments_Mutant(frames, is_first) ==
  IF frames = <<>> THEN <<>>
  ELSE IF is_first /\ is_data(Head(frames).opcode)
  THEN <<ExtensionRegistry_encode(extensions, Head(frames))>>
         \o encode_fragments_Mutant(Tail(frames), TRUE)
  ELSE <<Head(frames)>> \o encode_fragments_Mutant(Tail(frames), is_first)

\* the frames send's loop over the fragmenter hands to write_frame
RECURSIVE encode_fragments(_, _)
encode_fragments(frames, is_first) ==
  IF frames = <<>> THEN <<>>
  ELSE IF is_first /\ is_data(Head(frames).opcode)
  THEN <<ExtensionRegistry_encode(extensions, Head(frames))>>
         \o encode_fragments(Tail(frames), FALSE)
  ELSE <<Head(frames)>> \o encode_fragments(Tail(frames), is_first)

send_no_flush(st, message, c, failAt) ==
  IF ~can_send(st) THEN [c |-> c, ret |-> RetErr("ConnectionClosed")]
  ELSE IF Message_is_control(message)
  THEN IoResult(codec_write_frame(c, Frame_from_Message(message), failAt))
  ELSE IF check_message_size(Len(Message_payload(message))) /= "Ok"
  THEN [c |-> c, ret |-> RetErr(check_message_size(Len(Message_payload(message))))]
  ELSE IoResult(write_frames(c,
         IF Len(Message_payload(message)) <= FragmentSize
         THEN <<ExtensionRegistry_encode(extensions, Frame_from_Message(message))>>
         ELSE encode_fragments(
                MessageFragmenter(Message_payload(message),
                                  IF Message_is_text(message) THEN "Text" ELSE "Binary",
                                  FragmentSize),
                TRUE),
         failAt))

flush(c, failAt) == IoResult(codec_flush(c, failAt))

\* the flush that ends send, unless r, the result so far, is an error
send_flush(r, failAt) == IF r.ret.k /= "Ok" THEN r ELSE flush(r.c, failAt)

send(st, message, c, failAt) ==
  send_flush(send_no_flush(st, message, c, failAt), failAt)

RECURSIVE send_batch(_, _, _, _)
RECURSIVE send_batch_rest(_, _, _, _)
send_batch_rest(st, messages, r, failAt) ==
  IF r.ret.k /= "Ok" THEN r ELSE send_batch(st, messages, r.c, failAt)

send_batch(st, messages, c, failAt) ==
  IF messages = <<>> THEN flush(c, failAt)
  ELSE send_batch_rest(st, Tail(messages),
                       send_no_flush(st, Head(messages), c, failAt), failAt)

\* the write and flush of close, with the state set before them
close_io(w, failAt) ==
  [state |-> "Closing", c |-> w.c, ret |-> IF w.ok THEN RetOk ELSE RetErr("Io")]

\* mutant: the early return for a connection that is not Open is missing
close_Mutant(st, code, reason, c, failAt) ==
  IF is_reserved(code)
  THEN [state |-> st, c |-> c, ret |-> RetErr("InvalidCloseCode")]
  ELSE close_io(
         FlushAfter(
           codec_write_frame(c, Frame_close(Some(CloseCode_as_u16(code)), reason),
                             failAt),
           failAt),
         failAt)

close(st, code, reason, c, failAt) ==
  IF st /= "Open" THEN [state |-> st, c |-> c, ret |-> RetOk]
  ELSE IF is_reserved(code)
  THEN [state |-> st, c |-> c, ret |-> RetErr("InvalidCloseCode")]
  ELSE close_io(
         FlushAfter(
           codec_write_frame(c, Frame_close(Some(CloseCode_as_u16(code)), reason),
                             failAt),
           failAt),
         failAt)

\* ------------------------------------------------------------------------
\* connection.rs: recv, one pass of its loop
\* ------------------------------------------------------------------------
NoPong == [some |-> FALSE, val |-> <<>>]

\* mutant: end of stream reported as None without closing the connection
recv_connection_closed_Mutant(st) == [state |-> st, ret |-> RetNone]

\* lines 262-265: the arm for Err(ConnectionClosed) of read_frame
recv_connection_closed(st) == [state |-> "Closed", ret |-> RetNone]

\* lines 253-258: the pending pong, if any, is written and flushed
recv_pong(pp, c, failAt) ==
  IF ~pp.some THEN [c |-> c, ok |-> TRUE]
  ELSE FlushAfter(codec_write_frame(c, Frame_pong(pp.val), failAt), failAt)

\* lines 285-292: the response to a Close frame read in Open
recv_close_response(close_frame) ==
  IF close_frame.some
  THEN Frame_close(Some(CloseCode_as_u16(close_frame.code)), close_frame.reason)
  ELSE Frame_close(None, <<>>)

\* lines 279-296: the arm for a Close frame that passed validate; the
\* results of write_frame and flush are dropped
recv_close(st, close_frame, c, failAt) ==
  [state |-> "Closed",
   c |-> IF st = "Open"
         THEN FlushAfter(codec_write_frame(c, recv_close_response(close_frame),
                                           failAt), failAt).c
         ELSE c,
   ret |-> RetMsg(Message_Close(close_frame))]

\* lines 297-302: what recv does with the assembler's answer p
recv_pushed(p, rsv1) ==
  [assembler |-> p.asm,
   ret |-> IF p.k = "Err" THEN RetErr(p.err)
           ELSE IF p.k = "None" THEN RetPending
           ELSE assembled_to_message(p.opcode, p.payload, rsv1)]

\* lines 297-302: a data frame that passed validate goes to the assembler
recv_data(asm, frame) ==
  recv_pushed(MessageAssembler_push(asm, frame), AssembledMessage_rsv1(frame))

\* the connection's fields, the log and recv's result after one pass of the
\* loop (RetPending: the loop goes round again)
RecvOut(st, pp, rb, asm, c, ret) ==
  [state |-> st, pending_pong |-> pp, read_buf |-> rb, assembler |-> asm,
   c |-> c, ret |-> ret]

\* lines 279-296: the connection after the Close arm came to cl
recv_close_out(asm, cl) == RecvOut(cl.state, NoPong, <<>>, asm, cl.c, cl.ret)

\* lines 297-302: the connection after the data arm came to da
recv_data_out(st, c, da) == RecvOut(st, NoPong, <<>>, da.assembler, c, da.ret)

\* lines 269-302: the match on the opcode of a frame that passed validate
recv_frame(st, asm, frame, c, failAt) ==
  CASE frame.opcode = "Ping" ->
         RecvOut(st, [some |-> TRUE, val |-> frame.payload], <<>>, asm, c,
                 RetMsg(Message_Ping(frame.payload)))
    [] frame.opcode = "Pong" ->
         RecvOut(st, NoPong, <<>>, asm, c, RetMsg(Message_Pong(frame.payload)))
    [] frame.opcode = "Close" ->
         recv_close_out(asm, recv_close(st, parse_close_frame(frame.payload), c,
                                        failAt))
    [] OTHER -> recv_data_out(st, c, recv_data(asm, frame))

\* lines 260-268: the match on what read_frame returned
recv_read(st, asm, rf, failAt) ==
  IF rf.k = "Closed"
  THEN RecvOut(recv_connection_closed(st).state, NoPong, rf.read_buf, asm, rf.c,
               recv_connection_closed(st).ret)
  ELSE IF rf.k = "Err"
  THEN RecvOut(st, NoPong, rf.read_buf, asm, rf.c, RetErr(rf.err))
  ELSE IF Frame_validate(rf.frame) /= "Ok"
  THEN RecvOut(st, NoPong, rf.read_buf, asm, rf.c, RetErr(Frame_validate(rf.frame)))
  ELSE recv_frame(st, asm, rf.frame, rf.c, failAt)

\* lines 253-303 after the pong: pw is what writing the pong came to
recv_after_pong(r, acc, st, rb, asm, arrival, failAt, pw) ==
  IF ~pw.ok THEN RecvOut(st, NoPong, rb, asm, pw.c, RetErr("Io"))
  ELSE recv_read(st, asm, codec_read_frame(r, acc, rb, arrival, pw.c), failAt)

\* the whole loop body
recv_iter(r, acc, st, pp, rb, asm, c0, arrival, failAt) ==
  recv_after_pong(r, acc, st, rb, asm, arrival, failAt, recv_pong(pp, c0, failAt))

\* ------------------------------------------------------------------------
\* Inputs of the calls
\* ------------------------------------------------------------------------
\* messages the application passes to send
SendMessages ==
  { Message_Text(<<65>>), Message_Text(Zeros(FragmentSize + 1)),
    Message_Binary(Zeros(MaxMessageSize + 1)),
    Message_Ping(<<112>>),
    Message_Close(NoCloseFrame),
    Message_Close(CloseFrame_new(CloseCode_from_u16(1000), <<65>>)),
    Message_Close(CloseFrame_new(CloseCode_from_u16(1005), <<>>)) }

\* messages the application passes to send_no_flush
NoFlushMessages == {Message_Text(Zeros(FragmentSize + 1)), Message_Ping(<<112>>)}

BatchMessages ==
  { <<>>,
    <<Message_Text(Zeros(FragmentSize + 1)), Message_Ping(<<112>>),
      Message_Text(<<65>>)>>,
    <<Message_Binary(Zeros(MaxMessageSize + 1)), Message_Text(<<65>>)>> }

\* code and reason the application passes to close
CloseArgs ==
  { CloseFrame_new(CloseCode_from_u16(1000), <<>>),
    CloseFrame_new(CloseCode_from_u16(3000), <<65>>),
    CloseFrame_new(CloseCode_from_u16(1005), <<65>>),
    CloseFrame_new(CloseCode_from_u16(1000),
                   Zeros(MAX_CONTROL_FRAME_PAYLOAD - 1)) }

\* the failure inputs tried
FailPoints == 0..MaxFailAt

\* the Ping payload a call returned, if it returned one
PingOf(ret) ==
  IF ret.k = "Msg" /\ ret.msg.type = "Ping"
  THEN [some |-> TRUE, val |-> ret.msg.payload]
  ELSE NoPong

Call(op, arg, pre, ret, io) ==
  [op |-> op, arg |-> arg, pre |-> pre, ret |-> ret, io |-> io]

\* the configurations a connection is constructed with: role, Config values
\* and the extension registry handed to with_extensions (empty for new)
Configs ==
  { [role |-> "Client", accept_unmasked_frames |-> FALSE,
     max_frame_size |-> MaxFrameSize, extensions |-> ExtensionRegistry_new],
    [role |-> "Server", accept_unmasked_frames |-> FALSE,
     max_frame_size |-> MaxFrameSize, extensions |-> ExtensionRegistry_new],
    [role |-> "Server", accept_unmasked_frames |-> TRUE,
     max_frame_size |-> MaxFrameSize, extensions |-> ExtensionRegistry_new],
    [role |-> "Client", accept_unmasked_frames |-> FALSE,
     max_frame_size |-> MaxFrameSize, extensions |-> DeflateRegistry],
    [role |-> "Server", accept_unmasked_frames |-> FALSE,
     max_frame_size |-> SmallMaxFrameSize, extensions |-> ExtensionRegistry_new] }

\* Connection::new / with_extensions
Init ==
  /\ \E cfg \in Configs :
       /\ role = cfg.role
       /\ accept_unmasked_frames = cfg.accept_unmasked_frames
       /\ max_frame_size = cfg.max_frame_size
       /\ extensions = cfg.extensions
  /\ state = "Open"
  /\ pending_pong = NoPong
  /\ read_buf = <<>>
  /\ assembler = MessageAssembler_new
  /\ pc = "idle"
  /\ last = Call("new", <<>>, "Open", RetOk, <<>>)

\* a failure input is tried only where the call gets that far: the failing
\* operation is among the n the call issued
Send ==
  /\ pc = "idle"
  /\ \E m \in SendMessages, failAt \in FailPoints :
     \E r \in {send(state, m, NewLog, failAt)} :
       /\ failAt <= r.c.n
       /\ last' = Call("send", <<m>>, state, r.ret, r.c.io)
  /\ UNCHANGED <<config, state, pending_pong, read_buf, assembler, pc>>

SendNoFlush ==
  /\ pc = "idle"
  /\ \E m \in NoFlushMessages, failAt \in FailPoints :
     \E r \in {send_no_flush(state, m, NewLog, failAt)} :
       /\ failAt <= r.c.n
       /\ last' = Call("send_no_flush", <<m>>, state, r.ret, r.c.io)
  /\ UNCHANGED <<config, state, pending_pong, read_buf, assembler, pc>>

SendBatch ==
  /\ pc = "idle"
  /\ \E ms \in BatchMessages, failAt \in FailPoints :
     \E r \in {send_batch(state, ms, NewLog, failAt)} :
       /\ failAt <= r.c.n
       /\ last' = Call("send_batch", ms, state, r.ret, r.c.io)
  /\ UNCHANGED <<config, state, pending_pong, read_buf, assembler, pc>>

Flush ==
  /\ pc = "idle"
  /\ \E failAt \in FailPoints :
     \E r \in {flush(NewLog, failAt)} :
       /\ failAt <= r.c.n
       /\ last' = Call("flush", <<>>, state, r.ret, r.c.io)
  /\ UNCHANGED <<config, state, pending_pong, read_buf, assembler, pc>>

Close ==
  /\ pc = "idle"
  /\ \E cf \in CloseArgs, failAt \in FailPoints :
     \E r \in {close(state, cf.code, cf.reason, NewLog, failAt)} :
       /\ failAt <= r.c.n
       /\ state' = r.state
       /\ last' = Call("close", <<Message_Close(cf)>>, state, r.ret, r.c.io)
  /\ UNCHANGED <<config, pending_pong, read_buf, assembler, pc>>

\* one pass of recv's loop, starting from the log c0 of the call
RecvPass(pre, c0) ==
  \E arrival \in Arrivals(role), failAt \in FailPoints :
  \E r \in {recv_iter(role, accept_unmasked_frames, state, pending_pong,
                      read_buf, assembler, c0, arrival, failAt)} :
    /\ read_buf /= <<>> => arrival.k = "eof"
    /\ failAt <= r.c.n
    /\ state' = r.state
    /\ pending_pong' = r.pending_pong
    /\ read_buf' = r.read_buf
    /\ assembler' = r.assembler
    /\ last' = Call("recv", <<>>, pre, r.ret, r.c.io)
    /\ pc' = IF r.ret.k = "Pending" THEN "recv" ELSE "idle"

\* recv is called
Recv ==
  /\ pc = "idle"
  /\ UNCHANGED config
  /\ IF ~can_receive(state)
     THEN /\ last' = Call("recv", <<>>, state, RetNone, <<>>)
          /\ UNCHANGED <<state, pending_pong, read_buf, assembler, pc>>
     ELSE RecvPass(state, NewLog)

\* recv's loop goes round again after a non-final data frame
RecvLoop ==
  /\ pc = "recv"
  /\ RecvPass(last.pre, [io |-> last.io, n |-> 0])
  /\ UNCHANGED config

Next ==
  \/ Recv
  \/ RecvLoop
  \/ Send
  \/ SendNoFlush
  \/ SendBatch
  \/ Flush
  \/ Close

Spec == Init /\ [][Next]_vars

\* ------------------------------------------------------------------------
\* Properties
\* ------------------------------------------------------------------------
\* the frames handed to the transport's write during the call, in order
RECURSIVE Writes(_)
Writes(io) ==
  IF io = <<>> THEN <<>>
  ELSE IF Head(io).t = "write" THEN <<Head(io).frame>> \o Writes(Tail(io))
  ELSE Writes(Tail(io))

HasRead(io) == \E i \in 1..Len(io) : io[i].t = "read"

HasEof(io) == \E i \in 1..Len(io) : io[i].t = "read" /\ io[i].res = "eof"

Completed(op) == pc = "idle" /\ last.op = op

\* a Close frame with status code n and reason bytes rs, as it goes on the wire
CloseFrameOf(n, rs) ==
  [fin |-> TRUE, rsv1 |-> FALSE, rsv2 |-> FALSE, rsv3 |-> FALSE,
   opcode |-> "Close", payload |-> <<n \div 256, n % 256>> \o rs]

EmptyCloseFrame ==
  [fin |-> TRUE, rsv1 |-> FALSE, rsv2 |-> FALSE, rsv3 |-> FALSE,
   opcode |-> "Close", payload |-> <<>>]

\* C1: in every state other than Open, send and send_no_flush return
\* connection-closed and issue no transport operation (for Connecting,
\* which a constructed Connection is never in, this is checked on the
\* operations themselves).
C1_SendRejectedUnlessOpen ==
  /\ \A s \in ConnectionState \ {"Open"} : \A m \in SendMessages :
       /\ send(s, m, NewLog, 0) = [c |-> NewLog, ret |-> RetErr("ConnectionClosed")]
       /\ send_no_flush(s, m, NewLog, 0) =
            [c |-> NewLog, ret |-> RetErr("ConnectionClosed")]
  /\ (pc = "idle" /\ last.op \in {"send", "send_no_flush"} /\ last.pre /= "Open")
       => (last.ret = RetErr("ConnectionClosed") /\ last.io = <<>>)

C1_Witness ==
  /\ Completed("send") /\ last.pre = "Closing"
  /\ last.ret = RetErr("ConnectionClosed")

StateRank(s) ==
  CASE s = "Connecting" -> 0
    [] s = "Open" -> 1
    [] s = "Closing" -> 2
    [] s = "Closed" -> 3

\* C2: whatever is called and whatever the peer sends, the state only moves
\* forward along Open -> Closing -> Closed; Closed is never left.
C2_StateOnlyAdvances ==
  [][/\ state' \in {"Open", "Closing", "Closed"}
     /\ StateRank(state') >= StateRank(state)]_vars

C2_Witness ==
  /\ Completed("recv") /\ last.pre = "Closing" /\ state = "Closed"

\* C3: recv reads from the transport only when called in Open or Closing;
\* called in Closed it returns Ok(None) and issues no transport operation.
C3_RecvReadsOnlyWhenReceivable ==
  last.op = "recv" =>
    /\ HasRead(last.io) => last.pre \in {"Open", "Closing"}
    /\ last.pre = "Closed" => (pc = "idle" /\ last.ret = RetNone /\ last.io = <<>>)

C3_Witness ==
  /\ Completed("recv") /\ last.pre = "Closed" /\ last.ret = RetNone

\* C4: close(code, reason) on an Open connection with a non-reserved code
\* writes exactly one Close frame carrying code and reason and leaves the
\* state Closing; in any other state it returns Ok, writes nothing and
\* leaves the state as it was.
C4_CloseWritesOneCloseFrame ==
  Completed("close") =>
    LET cf == last.arg[1].close
    IN IF last.pre = "Open"
       THEN ~is_reserved(cf.code) =>
              /\ state = "Closing"
              /\ Writes(last.io) = <<CloseFrameOf(CloseCode_as_u16(cf.code), cf.reason)>>
       ELSE /\ last.ret = RetOk
            /\ last.io = <<>>
            /\ state = last.pre

C4_Witness ==
  /\ Completed("close") /\ last.pre = "Open" /\ state = "Closing"
  /\ last.ret = RetOk
  /\ last.arg[1].close.reason /= <<>>
  /\ Len(Writes(last.io)) = 1

\* C5 (as claimed): when recv returns the peer's Close message, it has
\* written one mirroring Close frame if it was called in Open and nothing
\* if it was called in Closing, and the state is Closed.
C5_Claim ==
  (Completed("recv") /\ last.ret.k = "Msg" /\ last.ret.msg.type = "Close") =>
    LET cf == last.ret.msg.close
        mirror == IF cf.some
                  THEN CloseFrameOf(CloseCode_as_u16(cf.code), cf.reason)
                  ELSE EmptyCloseFrame
        closes == SelectSeq(Writes(last.io), LAMBDA f : f.opcode = "Close")
    IN /\ state = "Closed"
       /\ last.pre = "Open" => closes = <<mirror>>
       /\ last.pre = "Closing" => Writes(last.io) = <<>>

ReservedCodes == {1004, 1005, 1006, 1015}

\* C6 (as claimed): no Close frame the connection writes carries a
\* reserved status code.
C6_Claim ==
  \A i \in 1..Len(last.io) :
    (last.io[i].t = "write" /\ last.io[i].frame.opcode = "Close"
       /\ Len(last.io[i].frame.payload) >= 2)
      => from_be_bytes(last.io[i].frame.payload[1], last.io[i].frame.payload[2])
           \notin ReservedCodes

\* errors of recv that are fatal to the connection, and the status code
\* each is closed with
FatalErrors ==
  {"ProtocolViolation", "InvalidUtf8", "FrameTooLarge", "MessageTooLarge",
   "ReservedBitsSet", "ReservedOpcode", "UnmaskedClientFrame",
   "MaskedServerFrame", "FragmentedControlFrame", "ControlFrameTooLarge"}

StatusCodeFor(e) ==
  CASE e = "InvalidUtf8" -> 1007
    [] e \in {"FrameTooLarge", "MessageTooLarge"} -> 1009
    [] OTHER -> 1002

RecvFailedFatally ==
  /\ Completed("recv") /\ last.ret.k = "Err" /\ last.ret.err \in FatalErrors

\* C7 (as claimed): when recv fails with a fatal error, a Close frame with
\* the mapped status code has been written before the error is returned.
C7_Claim ==
  RecvFailedFatally =>
    \E i \in 1..Len(last.io) :
      /\ last.io[i].t = "write" /\ last.io[i].frame.opcode = "Close"
      /\ Len(last.io[i].frame.payload) >= 2
      /\ from_be_bytes(last.io[i].frame.payload[1], last.io[i].frame.payload[2])
           = StatusCodeFor(last.ret.err)

\* C8 (as claimed): after recv returns a fatal error the state is Closed.
C8_Claim == RecvFailedFatally => state = "Closed"

\* C9 (as claimed): the call to send or recv that follows a recv returning
\* Ping(p) starts by writing a Pong frame with payload p, before anything
\* is read.
C9_Claim ==
  [][(/\ Completed("recv") /\ PingOf(last.ret).some
      /\ last'.op \in {"send", "recv"})
       => /\ last'.io /= <<>>
          /\ last'.io[1].t = "write"
          /\ last'.io[1].frame = Frame_pong(PingOf(last.ret).val)]_vars

\* C10: when the transport reports end of stream during recv, whether or
\* not a frame or a message is partly received, recv sets the state to
\* Closed and returns Ok(None).
C10_EofClosesAndReturnsNone ==
  (last.op = "recv" /\ HasEof(last.io)) =>
    /\ pc = "idle"
    /\ state = "Closed"
    /\ last.ret = RetNone
    /\ last.io[Len(last.io)].res = "eof"

C10_Witness ==
  /\ Completed("recv") /\ HasEof(last.io)
  /\ last.pre = "Closing" /\ state = "Closed"
  /\ read_buf /= <<>>
  /\ assembler.opcode /= "None"

\* the frames of message m in the order they are due on the transport:
\* one frame for a control message, the payload cut every FragmentSize
\* bytes for a data message
ChunkCount(n) == IF n = 0 THEN 1 ELSE (n + FragmentSize - 1) \div FragmentSize

ExpectedFrames(m) ==
  IF m.type \in {"Ping", "Pong", "Close"}
  THEN <<[fin |-> TRUE, opcode |-> m.type, payload |-> m.payload]>>
  ELSE [i \in 1..ChunkCount(Len(m.payload)) |->
          [fin |-> i = ChunkCount(Len(m.payload)),
           opcode |-> IF i = 1 THEN m.type ELSE "Continuation",
           payload |-> SubSeq(m.payload, (i - 1) * FragmentSize + 1,
                              IF i * FragmentSize <= Len(m.payload)
                              THEN i * FragmentSize ELSE Len(m.payload))]]

RECURSIVE ExpectedAll(_)
ExpectedAll(ms) ==
  IF ms = <<>> THEN <<>> ELSE ExpectedFrames(Head(ms)) \o ExpectedAll(Tail(ms))

\* frame f is the expected frame e, as it is or compressed (the payload of
\* a Close frame, built from code and reason, is not compared here)
SameFrame(f, e) ==
  /\ f.opcode = e.opcode
  /\ f.fin = e.fin
  /\ \/ e.opcode = "Close"
     \/ ~f.rsv1 /\ f.payload = e.payload
     \/ f.rsv1 /\ f.payload = compress(e.payload)

\* C11: the frames a send, send_no_flush or send_batch call hands to the
\* transport are, in order, the frames of its messages in the order the
\* messages were passed (fragments in payload order, control and data
\* frames where their messages stand): always a prefix of that sequence,
\* and all of it when the call returns Ok.
C11_FramesInSendOrder ==
  (pc = "idle" /\ last.op \in {"send", "send_no_flush", "send_batch"}) =>
    LET w == Writes(last.io)
        e == ExpectedAll(last.arg)
    IN /\ Len(w) <= Len(e)
       /\ \A i \in 1..Len(w) : SameFrame(w[i], e[i])
       /\ last.ret = RetOk => Len(w) = Len(e)

C11_Witness ==
  /\ Completed("send_batch") /\ last.ret = RetOk
  /\ Len(last.arg) = 3
  /\ Len(Writes(last.io)) = 4
  /\ Writes(last.io)[2].opcode = "Continuation"
  /\ Writes(last.io)[3].opcode = "Ping"

\* the reads of the log that returned bytes, and what the last of them
\* brought
DataReads(io) == {i \in 1..Len(io) : io[i].t = "read" /\ io[i].res = "data"}

LastArrived(io) == io[CHOOSE i \in DataReads(io) : \A j \in DataReads(io) : j <= i].rx

\* in this step one pass of recv's loop read a whole frame
PassReadFrame ==
  /\ last'.op = "recv"
  /\ Cardinality(DataReads(last'.io)) >
       (IF pc = "recv" THEN Cardinality(DataReads(last.io)) ELSE 0)
  /\ LastArrived(last'.io).avail = "full"

Payloads == UNION {[1..n -> {1, 2}] : n \in 0..MaxPayloadLen}

FragmenterInputs ==
  [payload : Payloads, opcode : {"Text", "Binary"}, fragment_size : 1..MaxFragSize]

InitFragmenter ==
  /\ role = "Client"
  /\ accept_unmasked_frames = FALSE
  /\ max_frame_size = MaxFrameSize
  /\ extensions = ExtensionRegistry_new
  /\ state = "Open"
  /\ pending_pong = NoPong
  /\ read_buf = <<>>
  /\ assembler = MessageAssembler_new
  /\ pc = "fragmenter_new"
  /\ \E i \in FragmenterInputs :
       last = [op |-> "fragmenter", input |-> i, frames |-> <<>>]

FragmenterCollect ==
  /\ pc = "fragmenter_new"
  /\ pc' = "fragmenter_done"
  /\ last' = [last EXCEPT !.frames =
                MessageFragmenter(last.input.payload, last.input.opcode,
                                  last.input.fragment_size)]
  /\ UNCHANGED <<config, state, pending_pong, read_buf, assembler>>

NextFragmenter == FragmenterCollect

SpecFragmenter == InitFragmenter /\ [][NextFragmenter]_vars

RECURSIVE ConcatPayloads(_)
ConcatPayloads(fs) ==
  IF fs = <<>> THEN <<>> ELSE Head(fs).payload \o ConcatPayloads(Tail(fs))

\* C13: for every payload, data opcode and fragment_size >= 1 the frames
\* the fragmenter yields are at least one; the first has the message's
\* opcode and every later one Continuation; the last and only the last is
\* final; none carries more than fragment_size bytes; their payloads in
\* order make up the payload; an empty payload gives one empty final frame.
C13_FragmenterFrames ==
  pc = "fragmenter_done" =>
    LET fs == last.frames
        i0 == last.input
    IN /\ Len(fs) >= 1
       /\ fs[1].opcode = i0.opcode
       /\ \A k \in 2..Len(fs) : fs[k].opcode = "Continuation"
       /\ \A k \in 1..Len(fs) : fs[k].fin <=> k = Len(fs)
       /\ \A k \in 1..Len(fs) : Len(fs[k].payload) <= i0.fragment_size
       /\ ConcatPayloads(fs) = i0.payload
       /\ i0.payload = <<>> =>
            fs = <<[fin |-> TRUE, rsv1 |-> FALSE, rsv2 |-> FALSE, rsv3 |-> FALSE,
                    opcode |-> i0.opcode, payload |-> <<>>]>>

C13_Witness ==
  /\ pc = "fragmenter_done"
  /\ Len(last.input.payload) = 4 /\ last.input.fragment_size = 3
  /\ Len(last.frames) = 2
  /\ Len(last.frames[2].payload) = 1

\* ------------------------------------------------------------------------
\* C14
\* ------------------------------------------------------------------------
\* the call just completed is a send of a data message that was fragmented
FragmentedSend ==
  /\ Completed("send")
  /\ ~Message_is_control(last.arg[1])
  /\ Len(last.arg[1].payload) > FragmentSize
  /\ Len(last.arg[1].payload) <= MaxMessageSize
  /\ can_send(last.pre)

\* the frames the fragmenter produces for the message of that send
FragmentsOf(m) ==
  MessageFragmenter(m.payload, IF m.type = "Text" THEN "Text" ELSE "Binary",
                    FragmentSize)

\* C14: when send fragments a message, the first frame written is the
\* fragmenter's first frame passed through the extension pipeline, and
\* every later frame is written exactly as the fragmenter produced it:
\* a Continuation frame with no RSV bit set and its payload untouched.
C14_ExtensionsOnFirstFragmentOnly ==
  FragmentedSend =>
    \A i \in 1..Len(Writes(last.io)) :
      IF i = 1
      THEN Writes(last.io)[i] =
             ExtensionRegistry_encode(extensions, FragmentsOf(last.arg[1])[1])
      ELSE /\ Writes(last.io)[i] = FragmentsOf(last.arg[1])[i]
           /\ Writes(last.io)[i].opcode = "Continuation"
           /\ ~Writes(last.io)[i].rsv1

\* a fragmented send on a connection with permessage-deflate negotiated
\* wrote all its frames, the last of them final and not empty
C14_Witness ==
  /\ FragmentedSend
  /\ negotiated_count(extensions) > 0
  /\ last.ret = RetOk
  /\ Len(Writes(last.io)) = Len(FragmentsOf(last.arg[1]))
  /\ Len(Writes(last.io)) >= 2
  /\ should_compress_frame(FragmentsOf(last.arg[1])[Len(Writes(last.io))])

\* ------------------------------------------------------------------------
\* C15, C16
\* ------------------------------------------------------------------------
\* C15 (as claimed): every control frame a call of the connection hands to
\* the transport is final and has a payload of at most 125 bytes.
C15_Claim ==
  \A i \in 1..Len(Writes(last.io)) :
    is_control(Writes(last.io)[i].opcode) =>
      /\ Writes(last.io)[i].fin
      /\ Len(Writes(last.io)[i].payload) <= MAX_CONTROL_FRAME_PAYLOAD

\* C16 (as claimed): no frame a send of a data message writes has a payload
\* larger than max_frame_size; where the fragment size is configured above
\* max_frame_size and the message is longer than max_frame_size, send fails
\* with FrameTooLarge instead.
C16_Claim ==
  (Completed("send") /\ ~Message_is_control(last.arg[1])) =>
    /\ \A i \in 1..Len(Writes(last.io)) :
         Len(Writes(last.io)[i].payload) <= max_frame_size
    /\ (/\ can_send(last.pre)
        /\ Len(last.arg[1].payload) <= MaxMessageSize
        /\ Len(last.arg[1].payload) > max_frame_size
        /\ FragmentSize > max_frame_size)
       => last.ret = RetErr("FrameTooLarge")

\* ------------------------------------------------------------------------
\* The assembler on its own: frames pushed one after another onto one
\* MessageAssembler, whatever the previous push returned.  last keeps the
\* frame, the assembler before the push, what push returned, and of the
\* message in progress the data frames accepted so far (prev before the
\* push, fragments after it) and whether a control frame came between them
\* (ctl before, interleaved after).
\* ------------------------------------------------------------------------
AssemblerPayloads ==
  { <<>>, <<65>>, <<195>>, <<169>>,
    Zeros(MaxMessageSize - 1), Zeros(MaxMessageSize + 1) }

AssemblerFrames ==
  { Frame_new(fin, opcode, payload) :
      fin \in BOOLEAN, opcode \in {"Text", "Binary", "Continuation"},
      payload \in AssemblerPayloads }
  \cup { Frame_new(TRUE, "Ping", <<112>>), Frame_new(TRUE, "Pong", <<>>),
         Frame_new(TRUE, "Close", <<3, 232>>) }

InitAssembler ==
  /\ role = "Server"
  /\ accept_unmasked_frames = FALSE
  /\ max_frame_size = MaxFrameSize
  /\ extensions = ExtensionRegistry_new
  /\ state = "Open"
  /\ pending_pong = NoPong
  /\ read_buf = <<>>
  /\ assembler = MessageAssembler_new
  /\ pc = "assembler"
  /\ last = [op |-> "new", frame |-> NoFrame, pre |-> MessageAssembler_new,
             out |-> [k |-> "None", err |-> "", opcode |-> "None",
                      payload |-> <<>>],
             prev |-> <<>>, ctl |-> FALSE,
             fragments |-> <<>>, interleaved |-> FALSE]

\* the record of a push of frame that returned r
Pushed(frame, r) ==
  [op |-> "push", frame |-> frame, pre |-> assembler,
   out |-> [k |-> r.k, err |-> r.err, opcode |-> r.opcode,
            payload |-> r.payload],
   prev |-> last.fragments, ctl |-> last.interleaved,
   fragments |-> IF r.k = "Some" THEN <<>>
                 ELSE IF r.k = "None" /\ is_data(frame.opcode)
                 THEN Append(last.fragments, frame)
                 ELSE last.fragments,
   interleaved |-> IF r.k = "Some" THEN FALSE
                   ELSE IF is_control(frame.opcode) /\ last.fragments /= <<>>
                   THEN TRUE
                   ELSE last.interleaved]

AssemblerPush ==
  /\ pc = "assembler"
  /\ \E frame \in AssemblerFrames :
     \E r \in {MessageAssembler_push(assembler, frame)} :
       /\ assembler' = r.asm
       /\ last' = Pushed(frame, r)
  /\ UNCHANGED <<config, state, pending_pong, read_buf, pc>>

AssemblerReset ==
  /\ pc = "assembler"
  /\ assembler' = MessageAssembler_reset(assembler)
  /\ last' = [op |-> "reset", frame |-> NoFrame, pre |-> assembler,
              out |-> [k |-> "None", err |-> "", opcode |-> "None",
                       payload |-> <<>>],
              prev |-> last.fragments, ctl |-> last.interleaved,
              fragments |-> <<>>, interleaved |-> FALSE]
  /\ UNCHANGED <<config, state, pending_pong, read_buf, pc>>

NextAssembler == AssemblerPush \/ AssemblerReset

SpecAssembler == InitAssembler /\ [][NextAssembler]_vars

\* the last step pushed a frame onto the assembler
PushDone == pc = "assembler" /\ last.op = "push"

PushFailed(e) == last.out.k = "Err" /\ last.out.err = e

\* C17: a Continuation frame pushed while no message is in progress
\* (is_assembling is false) and a Text or Binary frame pushed while one is
\* in progress fail with a protocol violation; a data frame in neither
\* case is never answered with a protocol violation.
C17_OpcodeSequencing ==
  (PushDone /\ is_data(last.frame.opcode)) =>
    IF (last.frame.opcode = "Continuation") = ~is_assembling(last.pre)
    THEN PushFailed("ProtocolViolation")
    ELSE ~PushFailed("ProtocolViolation")

\* a Text frame pushed after an accepted first fragment was rejected
C17_Witness ==
  /\ PushDone
  /\ last.frame.opcode = "Text"
  /\ is_assembling(last.pre)
  /\ last.prev /= <<>>
  /\ PushFailed("ProtocolViolation")

\* C18: a control frame pushed leaves the assembler as it was (buffer,
\* opcode, fragment count, running size, UTF-8 carry-over) and yields no
\* message; a message with control frames between its fragments completes
\* with the payloads of its data fragments, in order, and nothing else.
C18_ControlFramesLeaveReassemblyAlone ==
  PushDone =>
    /\ is_control(last.frame.opcode) =>
         (assembler = last.pre /\ last.out.k = "None")
    /\ (last.ctl /\ last.out.k = "Some") =>
         last.out.payload = ConcatPayloads(Append(last.prev, last.frame))

\* a Text message completed whose control frame arrived while half a
\* UTF-8 character was carried over
C18_Witness ==
  /\ PushDone
  /\ last.ctl
  /\ last.out.k = "Some"
  /\ last.out.opcode = "Text"
  /\ last.pre.utf8_validator.incomplete /= <<>>
  /\ last.out.payload = <<195, 169>>

\* the opcode sequencing checks let the frame of the last push through
SequencingOk ==
  /\ is_data(last.frame.opcode)
  /\ (last.frame.opcode = "Continuation") = is_assembling(last.pre)

\* C19: the assembler never buffers more than max_message_size bytes nor
\* counts more than max_fragment_count fragments.  A push that would take
\* the count or the size over its limit fails, with too-many-fragments or
\* message-too-large, and leaves buffer, count and size as they were; a
\* push fails with one of these errors only if it would exceed the limit.
C19_AssemblerLimits ==
  /\ pc = "assembler" =>
       /\ Len(assembler.buffer) <= MaxMessageSize
       /\ assembler.total_size = Len(assembler.buffer)
       /\ assembler.fragment_count <= MaxFragmentCount
  /\ (PushDone /\ SequencingOk) =>
       /\ PushFailed("TooManyFragments")
             <=> last.pre.fragment_count + 1 > MaxFragmentCount
       /\ PushFailed("MessageTooLarge")
             <=> /\ last.pre.fragment_count + 1 <= MaxFragmentCount
                 /\ last.pre.total_size + Len(last.frame.payload) > MaxMessageSize
       /\ last.out.k = "Err" =>
             /\ assembler.buffer = last.pre.buffer
             /\ assembler.fragment_count = last.pre.fragment_count
             /\ assembler.total_size = last.pre.total_size

\* a message of exactly max_fragment_count fragments and max_message_size
\* bytes completed
C19_Witness ==
  /\ PushDone
  /\ last.out.k = "Some"
  /\ Len(last.prev) + 1 = MaxFragmentCount
  /\ last.pre.fragment_count + 1 = MaxFragmentCount
  /\ Len(last.out.payload) = MaxMessageSize

\* C20 (as claimed): push returns a message only for a frame with fin set;
\* the message has the opcode of the first fragment and the payloads of all
\* fragments in arrival order, and the assembler is idle afterwards.
C20_Claim ==
  PushDone =>
    /\ ~last.frame.fin => last.out.k /= "Some"
    /\ last.out.k = "Some" =>
         /\ last.frame.fin
         /\ last.out.opcode = Head(Append(last.prev, last.frame)).opcode
         /\ last.out.payload = ConcatPayloads(Append(last.prev, last.frame))
         /\ assembler = MessageAssembler_new

\* ------------------------------------------------------------------------
\* The UTF-8 validator on its own: the payload of a Text message handed to
\* one Utf8Validator fragment by fragment, as MessageAssembler::push does,
\* for every cut of the bytes into fragments (empty ones included).  last
\* keeps the message bytes, how many were fed, the validator's saved bytes,
\* the verdict so far, and whether a fragment ended inside a code point and
\* whether an empty fragment was fed.
\* ------------------------------------------------------------------------
\* ASCII, continuation bytes, and lead bytes of 2-, 3- and 4-byte sequences
Utf8Bytes == {65, 128, 160, 195, 237, 240}

Utf8Inputs == UNION {[1..n -> Utf8Bytes] : n \in 0..MaxUtf8Len}

InitUtf8 ==
  /\ role = "Server"
  /\ accept_unmasked_frames = FALSE
  /\ max_frame_size = MaxFrameSize
  /\ extensions = ExtensionRegistry_new
  /\ state = "Open"
  /\ pending_pong = NoPong
  /\ read_buf = <<>>
  /\ assembler = MessageAssembler_new
  /\ pc = "utf8"
  /\ \E input \in Utf8Inputs :
       last = [op |-> "utf8", input |-> input, fed |-> 0, incomplete |-> <<>>,
               status |-> "open", cut_inside |-> FALSE, empty_fed |-> FALSE]

\* the validator's state and the message's fate after a fragment of n
\* bytes, the last one iff is_final, got the verdict v
Utf8Fed(n, is_final, v) ==
  [last EXCEPT !.fed = @ + n,
               !.incomplete = v.incomplete,
               !.status = IF ~v.ok THEN "rejected"
                          ELSE IF is_final THEN "accepted" ELSE "open",
               !.cut_inside = @ \/ (v.ok /\ v.incomplete /= <<>>),
               !.empty_fed = @ \/ n = 0]

\* a fragment that is not the last: any number of the bytes not yet fed
Utf8Fragment ==
  /\ pc = "utf8" /\ last.status = "open"
  /\ \E n \in 0..(Len(last.input) - last.fed) :
       last' = Utf8Fed(n, FALSE,
                 Utf8Validator_validate(last.incomplete,
                   SubSeq(last.input, last.fed + 1, last.fed + n), FALSE))
  /\ UNCHANGED <<config, state, pending_pong, read_buf, assembler, pc>>

\* the last fragment: all the bytes not yet fed
Utf8FinalFragment ==
  /\ pc = "utf8" /\ last.status = "open"
  /\ last' = Utf8Fed(Len(last.input) - last.fed, TRUE,
                Utf8Validator_validate(last.incomplete,
                  SubSeq(last.input, last.fed + 1, Len(last.input)), TRUE))
  /\ UNCHANGED <<config, state, pending_pong, read_buf, assembler, pc>>

NextUtf8 == Utf8Fragment \/ Utf8FinalFragment

SpecUtf8 == InitUtf8 /\ [][NextUtf8]_vars

\* RFC 3629: the well-formed encodings of one code point
Utf8Tail(b) == b >= 128 /\ b <= 191

IsCodePoint(c) ==
  \/ Len(c) = 1 /\ c[1] <= 127
  \/ Len(c) = 2 /\ c[1] >= 194 /\ c[1] <= 223 /\ Utf8Tail(c[2])
  \/ /\ Len(c) = 3 /\ Utf8Tail(c[3])
     /\ \/ c[1] = 224 /\ c[2] >= 160 /\ c[2] <= 191
        \/ c[1] \in (225..236) \cup {238, 239} /\ Utf8Tail(c[2])
        \/ c[1] = 237 /\ c[2] >= 128 /\ c[2] <= 159
  \/ /\ Len(c) = 4 /\ Utf8Tail(c[3]) /\ Utf8Tail(c[4])
     /\ \/ c[1] = 240 /\ c[2] >= 144 /\ c[2] <= 191
        \/ c[1] \in 241..243 /\ Utf8Tail(c[2])
        \/ c[1] = 244 /\ c[2] >= 128 /\ c[2] <= 143

\* v is a sequence of well-formed code point encodings
RECURSIVE WellFormedUtf8(_)
WellFormedUtf8(v) ==
  \/ v = <<>>
  \/ \E k \in 1..4 :
       /\ k <= Len(v)
       /\ IsCodePoint(SubSeq(v, 1, k))
       /\ WellFormedUtf8(SubSeq(v, k + 1, Len(v)))

\* C21: however the bytes of a Text message are cut into fragments, the
\* validator accepts the message (every fragment passes, the last fed with
\* is_final) only if the bytes are well-formed UTF-8 and rejects a fragment
\* only if they are not; what it carries between fragments is the unfinished
\* tail of the bytes fed so far.
C21_Utf8AcceptedIffValid ==
  pc = "utf8" =>
    /\ last.status = "accepted" =>
         (last.fed = Len(last.input) /\ WellFormedUtf8(last.input))
    /\ last.status = "rejected" => ~WellFormedUtf8(last.input)
    /\ last.status = "open" =>
         /\ Len(last.incomplete) <= 3
         /\ Len(last.incomplete) <= last.fed
         /\ last.incomplete =
              SubSeq(last.input, last.fed - Len(last.incomplete) + 1, last.fed)
         /\ WellFormedUtf8(SubSeq(last.input, 1, last.fed - Len(last.incomplete)))

\* a message of multi-byte code points accepted after a cut inside a code
\* point and an empty fragment
C21_Witness ==
  /\ pc = "utf8"
  /\ last.status = "accepted"
  /\ last.cut_inside /\ last.empty_fed
  /\ Len(last.input) = MaxUtf8Len
  /\ last.input[1] = 240

\* ------------------------------------------------------------------------
\* C22
\* ------------------------------------------------------------------------
\* in this step a pass of recv's loop read bytes holding at least the
\* header of a frame
PassReadHeader ==
  /\ last'.op = "recv"
  /\ Cardinality(DataReads(last'.io)) >
       (IF pc = "recv" THEN Cardinality(DataReads(last.io)) ELSE 0)
  /\ LastArrived(last'.io).avail /= "short"

MaskingErrors == {"UnmaskedClientFrame", "MaskedServerFrame"}

\* C22: a Server's recv answers an unmasked frame with UnmaskedClientFrame
\* unless accept_unmasked_frames is set, a Client's recv answers a masked
\* frame with MaskedServerFrame; the call returns that error, not a
\* message, and the assembler is as it was.  No other frame is answered
\* with a masking error.
C22_MaskingEnforced ==
  [][PassReadHeader =>
       LET w == LastArrived(last'.io)
           rejected(e) == /\ last'.ret = RetErr(e)
                          /\ pc' = "idle"
                          /\ assembler' = assembler
       IN IF role = "Server" /\ ~w.masked /\ ~accept_unmasked_frames
          THEN rejected("UnmaskedClientFrame")
          ELSE IF role = "Client" /\ w.masked
          THEN rejected("MaskedServerFrame")
          ELSE ~(last'.ret.k = "Err" /\ last'.ret.err \in MaskingErrors)]_vars

\* a Server that does not accept unmasked frames read one while a message
\* was being reassembled and returned the error
C22_Witness ==
  /\ Completed("recv")
  /\ role = "Server" /\ ~accept_unmasked_frames
  /\ last.ret = RetErr("UnmaskedClientFrame")
  /\ DataReads(last.io) /= {}
  /\ ~LastArrived(last.io).masked
  /\ LastArrived(last.io).payload /= <<>>
  /\ assembler.buffer /= <<>>

\* ------------------------------------------------------------------------
\* C23
\* ------------------------------------------------------------------------
\* the RSV bits claimed by the connection's negotiated extensions
ClaimedRsvBits ==
  UNION {Extension_rsv_bits(extensions.extensions[extensions.negotiated[i]]) :
           i \in DOMAIN extensions.negotiated}

\* C23 (as claimed): recv rejects a frame for its RSV bits only when a bit
\* set in it is claimed by no negotiated extension; a data frame with only
\* RSV1 set, read while an extension claiming RSV1 is negotiated, is not
\* answered with ReservedBitsSet.
C23_Claim ==
  (/\ last.op = "recv" /\ DataReads(last.io) /= {}
   /\ LastArrived(last.io).avail = "full"
   /\ LastArrived(last.io).rsv1
   /\ ~LastArrived(last.io).rsv2 /\ ~LastArrived(last.io).rsv3
   /\ is_data(OpCode_from_u8(LastArrived(last.io).op))
   /\ "rsv1" \in ClaimedRsvBits)
  => last.ret /= RetErr("ReservedBitsSet")

\* ------------------------------------------------------------------------
\* The extension registry on its own: extensions added to a new registry,
\* the peer's offers (server) or responses (client) negotiated, frames
\* encoded and decoded.  last keeps the call, its argument, the registry
\* before it, what it returned and, for encode and decode, the indexes of
\* the extensions called, in the order of the calls.
\* ------------------------------------------------------------------------
ExtensionPool ==
  { DeflateExtension, Extension("x-rsv2", {"rsv2"}),
    Extension("x-rsv13", {"rsv1", "rsv3"}), Extension("x-noop", {}) }

OfferPool ==
  { [name |-> "permessage-deflate", ok |-> TRUE], [name |-> "x-rsv2", ok |-> TRUE],
    [name |-> "x-rsv2", ok |-> FALSE], [name |-> "x-noop", ok |-> TRUE],
    [name |-> "x-unknown", ok |-> TRUE] }

OfferLists == UNION {[1..n -> OfferPool] : n \in 0..MaxOffers}

RegistryCall(op, arg, ret, calls) ==
  [op |-> op, arg |-> arg, pre |-> extensions, ret |-> ret, calls |-> calls]

InitRegistry ==
  /\ role = "Server"
  /\ accept_unmasked_frames = FALSE
  /\ max_frame_size = MaxFrameSize
  /\ extensions = ExtensionRegistry_new
  /\ state = "Open"
  /\ pending_pong = NoPong
  /\ read_buf = <<>>
  /\ assembler = MessageAssembler_new
  /\ pc = "registry"
  /\ last = [op |-> "new", arg |-> <<>>, pre |-> ExtensionRegistry_new,
             ret |-> "Ok", calls |-> <<>>]

RegistryAdd ==
  /\ pc = "registry"
  /\ Len(extensions.extensions) < MaxExtensions
  /\ \E ext \in ExtensionPool :
     \E r \in {ExtensionRegistry_add(extensions, ext)} :
       /\ extensions' = r.reg
       /\ last' = RegistryCall("add", ext, r.ret, <<>>)
  /\ UNCHANGED <<role, accept_unmasked_frames, max_frame_size, state,
                 pending_pong, read_buf, assembler, pc>>

RegistryNegotiate ==
  /\ pc = "registry"
  /\ \E offers \in OfferLists :
       /\ extensions' = ExtensionRegistry_negotiate(extensions, offers)
       /\ last' = RegistryCall("negotiate", offers, "Ok", <<>>)
  /\ UNCHANGED <<role, accept_unmasked_frames, max_frame_size, state,
                 pending_pong, read_buf, assembler, pc>>

RegistryConfigure ==
  /\ pc = "registry"
  /\ \E responses \in OfferLists :
     \E r \in {ExtensionRegistry_configure(extensions, responses)} :
       /\ extensions' = r.reg
       /\ last' = RegistryCall("configure", responses, r.ret, <<>>)
  /\ UNCHANGED <<role, accept_unmasked_frames, max_frame_size, state,
                 pending_pong, read_buf, assembler, pc>>

RegistryEncode ==
  /\ pc = "registry"
  /\ last' = RegistryCall("encode", Frame_new(TRUE, "Text", <<65>>),
                          ExtensionRegistry_encode(extensions,
                                                   Frame_new(TRUE, "Text", <<65>>)),
                          encode_order(extensions))
  /\ UNCHANGED <<config, state, pending_pong, read_buf, assembler, pc>>

RegistryDecode ==
  /\ pc = "registry"
  /\ last' = RegistryCall("decode", Frame_new(TRUE, "Text", <<65>>),
                          ExtensionRegistry_decode(extensions,
                                                   Frame_new(TRUE, "Text", <<65>>)),
                          decode_order(extensions))
  /\ UNCHANGED <<config, state, pending_pong, read_buf, assembler, pc>>

NextRegistry ==
  \/ RegistryAdd
  \/ RegistryNegotiate
  \/ RegistryConfigure
  \/ RegistryEncode
  \/ RegistryDecode

SpecRegistry == InitRegistry /\ [][NextRegistry]_vars

\* the union of the RSV bits the extensions in exts claim
ClaimsOf(exts) == UNION {exts[i].rsv_bits : i \in DOMAIN exts}

\* C24: no two registered extensions claim the same RSV bit and the
\* claimed-bit map is the union of their claims; an add fails exactly when
\* the new extension's claim overlaps a claimed bit, and then leaves the
\* registry as it was; otherwise the extension is appended.
C24_RsvClaimsDisjoint ==
  pc = "registry" =>
    /\ \A i, j \in DOMAIN extensions.extensions :
         i /= j => extensions.extensions[i].rsv_bits
                     \cap extensions.extensions[j].rsv_bits = {}
    /\ extensions.used_rsv_bits = ClaimsOf(extensions.extensions)
    /\ last.op = "add" =>
         /\ last.ret = "InvalidExtension"
               <=> last.arg.rsv_bits \cap ClaimsOf(last.pre.extensions) /= {}
         /\ last.ret = "InvalidExtension" => extensions = last.pre
         /\ last.ret = "Ok" =>
               extensions.extensions = Append(last.pre.extensions, last.arg)

\* an extension claiming RSV1 and RSV3 was refused by a registry holding
\* two extensions, one of them claiming RSV1
C24_Witness ==
  /\ pc = "registry" /\ last.op = "add"
  /\ last.ret = "InvalidExtension"
  /\ last.arg.rsv_bits = {"rsv1", "rsv3"}
  /\ Len(extensions.extensions) = 2
  /\ extensions.used_rsv_bits = {"rsv1", "rsv2"}

\* C25 (as claimed): encode calls the negotiated extensions in the order
\* in which they were registered and decode in the reverse of it, whatever
\* the order of the peer's offers or responses.
C25_Claim ==
  /\ (pc = "registry" /\ last.op = "encode") =>
       \A i, j \in DOMAIN last.calls : i < j => last.calls[i] <= last.calls[j]
  /\ (pc = "registry" /\ last.op = "decode") =>
       \A i, j \in DOMAIN last.calls : i < j => last.calls[i] >= last.calls[j]

\* ------------------------------------------------------------------------
\* C26
\* ------------------------------------------------------------------------
\* C26: a data message whose frames carry no RSV bit is delivered with its
\* payload as it arrived, the extension pipeline's decode not run, also on
\* a connection with negotiated extensions: recv never fails with an
\* extension error on such a frame, and the message it returns holds the
\* bytes buffered from the earlier fragments followed by the payload of
\* the final frame.
C26_DecodeSkippedWithoutRsv ==
  [][(/\ PassReadFrame
      /\ negotiated_count(extensions) > 0
      /\ ~LastArrived(last'.io).rsv1
      /\ ~LastArrived(last'.io).rsv2 /\ ~LastArrived(last'.io).rsv3)
     => /\ last'.ret /= RetErr("Extension")
        /\ (last'.ret.k = "Msg" /\ last'.ret.msg.type \in {"Text", "Binary"})
             => last'.ret.msg.payload
                  = assembler.buffer \o LastArrived(last'.io).payload]_vars

\* a connection with permessage-deflate negotiated returned a Text message
\* of two fragments
C26_Witness ==
  /\ Completed("recv")
  /\ negotiated_count(extensions) > 0
  /\ "rsv1" \in ClaimedRsvBits
  /\ last.ret.k = "Msg" /\ last.ret.msg.type = "Text"
  /\ last.ret.msg.payload = <<195, 169>>
  /\ Cardinality(DataReads(last.io)) = 2

\* ------------------------------------------------------------------------
\* The deflate streams on their own: one DeflateExtension, held in the
\* variable extensions, created for a role with the negotiated takeover
\* flags; payloads are compressed and received payloads decompressed in any
\* order.  last keeps the call, its data, the extension before it and what
\* the call returned.
\* ------------------------------------------------------------------------
DeflatePayloads == {<<>>, <<65>>, compress(<<65>>)}

InitDeflate ==
  /\ role = "Server"
  /\ accept_unmasked_frames = FALSE
  /\ max_frame_size = MaxFrameSize
  /\ \E is_server, server_nct, client_nct \in BOOLEAN :
       /\ extensions = DeflateExtension_new(is_server, server_nct, client_nct)
       /\ last = [op |-> "new", data |-> <<>>, pre |-> extensions,
                  ok |-> TRUE, out |-> <<>>, ctx |-> 0]
  /\ state = "Open"
  /\ pending_pong = NoPong
  /\ read_buf = <<>>
  /\ assembler = MessageAssembler_new
  /\ pc = "deflate"

DeflateCompress ==
  /\ pc = "deflate"
  /\ extensions.encoder.uses < MaxStreamUses
  /\ \E data \in DeflatePayloads :
     \E r \in {DeflateExtension_compress(extensions, data)} :
       /\ extensions' = r.d
       /\ last' = [op |-> "compress", data |-> data, pre |-> extensions,
                   ok |-> r.ok, out |-> r.data, ctx |-> r.ctx]
  /\ UNCHANGED <<role, accept_unmasked_frames, max_frame_size, state,
                 pending_pong, read_buf, assembler, pc>>

DeflateDecompress ==
  /\ pc = "deflate"
  /\ extensions.decoder.uses < MaxStreamUses
  /\ \E data \in DeflatePayloads :
     \E r \in {DeflateExtension_decompress(extensions, data)} :
       /\ extensions' = r.d
       /\ last' = [op |-> "decompress", data |-> data, pre |-> extensions,
                   ok |-> r.ok, out |-> r.data, ctx |-> r.ctx]
  /\ UNCHANGED <<role, accept_unmasked_frames, max_frame_size, state,
                 pending_pong, read_buf, assembler, pc>>

NextDeflate == DeflateCompress \/ DeflateDecompress

SpecDeflate == InitDeflate /\ [][NextDeflate]_vars

\* the takeover flag that governs the extension's encoder (decoder): a
\* server sends in the server-to-client direction and receives in the
\* other, a client the converse
EncoderNoTakeover ==
  IF extensions.is_server THEN extensions.server_no_context_takeover
  ELSE extensions.client_no_context_takeover

DecoderNoTakeover ==
  IF extensions.is_server THEN extensions.client_no_context_takeover
  ELSE extensions.server_no_context_takeover

\* C27: after each compress (decompress) that completed, the encoder
\* (decoder) is gone if no_context_takeover is set for its direction, the
\* direction being the role's, and is kept otherwise; a call that finds no
\* stream works on a fresh one.
C27_Claim ==
  pc = "deflate" =>
    /\ (last.op = "compress" /\ last.ok) =>
         /\ EncoderNoTakeover => ~extensions.encoder.some
         /\ (~EncoderNoTakeover /\ last.data /= <<>>) => extensions.encoder.some
         /\ (~EncoderNoTakeover /\ last.pre.encoder.some) => extensions.encoder.some
         /\ ~last.pre.encoder.some => last.ctx = 0
    /\ (last.op = "decompress" /\ last.ok) =>
         /\ DecoderNoTakeover => ~extensions.decoder.some
         /\ (~DecoderNoTakeover /\ last.data /= <<>>) => extensions.decoder.some
         /\ (~DecoderNoTakeover /\ last.pre.decoder.some) => extensions.decoder.some
         /\ ~last.pre.decoder.some => last.ctx = 0

\* ------------------------------------------------------------------------
\* protocol/frame.rs and protocol/mask.rs: frames as bytes.  A mask key is
\* a sequence of four bytes, NoMask stands for None.
\* ------------------------------------------------------------------------
NoMask == <<>>

\* a ^ b on unsigned integers
RECURSIVE xor(_, _)
xor(a, b) ==
  IF a = 0 THEN b
  ELSE IF b = 0 THEN a
  ELSE ((a + b) % 2) + 2 * xor(a \div 2, b \div 2)

\* apply_mask and apply_mask_simd: byte i (from 0) is xored with mask[i % 4]
apply_mask(data, mask) ==
  [i \in 1..Len(data) |-> xor(data[i], mask[((i - 1) % 4) + 1])]

\* Frame::wire_size
wire_size(frame, masked) ==
  2 + (IF Len(frame.payload) <= 125 THEN 0
       ELSE IF Len(frame.payload) <= 65535 THEN 2 ELSE 8)
    + (IF masked THEN 4 ELSE 0) + Len(frame.payload)

\* byte0 of Frame::write
write_byte0(frame) ==
  OpCode_as_u8(frame.opcode)
    + (IF frame.fin THEN 128 ELSE 0) + (IF frame.rsv1 THEN 64 ELSE 0)
    + (IF frame.rsv2 THEN 32 ELSE 0) + (IF frame.rsv3 THEN 16 ELSE 0)

\* (payload_len as u64).to_be_bytes(); lengths stay below 2^31 here
u64_to_be_bytes(n) ==
  <<0, 0, 0, 0, (n \div 16777216) % 256, (n \div 65536) % 256,
    (n \div 256) % 256, n % 256>>

\* the bytes after byte0 that Frame::write puts before the payload: byte1,
\* the extended length and the masking key
write_length_and_mask(n, mask) ==
  ( IF n <= 125 THEN <<n + (IF mask /= NoMask THEN 128 ELSE 0)>>
    ELSE IF n <= 65535
    THEN <<126 + (IF mask /= NoMask THEN 128 ELSE 0)>> \o to_be_bytes(n)
    ELSE <<127 + (IF mask /= NoMask THEN 128 ELSE 0)>> \o u64_to_be_bytes(n) )
  \o mask

\* mutant: a payload of 126 bytes still takes the 7-bit length form
Frame_write_Mutant(frame, mask) ==
  <<write_byte0(frame)>>
  \o ( IF Len(frame.payload) <= 126
       THEN <<Len(frame.payload) + (IF mask /= NoMask THEN 128 ELSE 0)>> \o mask
       ELSE write_length_and_mask(Len(frame.payload), mask) )
  \o (IF mask = NoMask THEN frame.payload ELSE apply_mask(frame.payload, mask))

\* Frame::write into a buffer of wire_size bytes: the bytes written
Frame_write(frame, mask) ==
  <<write_byte0(frame)>>
  \o write_length_and_mask(Len(frame.payload), mask)
  \o (IF mask = NoMask THEN frame.payload ELSE apply_mask(frame.payload, mask))

\* what parse_header and Frame::parse return
IncompleteFrame(needed) == [kind |-> "IncompleteFrame", needed |-> needed]

ReservedOpcode == [kind |-> "ReservedOpcode", needed |-> 0]

\* u64::from_be_bytes on buf[2..10]; lengths stay below 2^31 here
u64_from_be_bytes(buf) ==
  buf[7] * 16777216 + buf[8] * 65536 + buf[9] * 256 + buf[10]

\* parse_header once payload_len and header_size are known: the mask key
\* and the FrameHeader
header_with_mask(buf, payload_len, header_size) ==
  IF buf[2] >= 128 /\ Len(buf) < header_size + 4
  THEN IncompleteFrame(header_size + 4 - Len(buf))
  ELSE [kind |-> "Ok", needed |-> 0,
        fin |-> (buf[1] \div 128) % 2 = 1, rsv1 |-> (buf[1] \div 64) % 2 = 1,
        rsv2 |-> (buf[1] \div 32) % 2 = 1, rsv3 |-> (buf[1] \div 16) % 2 = 1,
        opcode |-> OpCode_from_u8(buf[1] % 16),
        mask |-> IF buf[2] >= 128
                 THEN SubSeq(buf, header_size + 1, header_size + 4) ELSE NoMask,
        payload_len |-> payload_len,
        header_len |-> IF buf[2] >= 128 THEN header_size + 4 ELSE header_size]

\* mutant: a missing mask key always asks for four bytes
parse_header_Mutant(buf) ==
  IF Len(buf) < 2 THEN IncompleteFrame(2 - Len(buf))
  ELSE IF OpCode_from_u8(buf[1] % 16) = "Reserved" THEN ReservedOpcode
  ELSE IF buf[2] % 128 <= 125
  THEN ( IF buf[2] >= 128 /\ Len(buf) < 6 THEN IncompleteFrame(4)
         ELSE header_with_mask(buf, buf[2] % 128, 2) )
  ELSE IF buf[2] % 128 = 126
  THEN ( IF Len(buf) < 4 THEN IncompleteFrame(4 - Len(buf))
         ELSE header_with_mask(buf, buf[3] * 256 + buf[4], 4) )
  ELSE ( IF Len(buf) < 10 THEN IncompleteFrame(10 - Len(buf))
         ELSE header_with_mask(buf, u64_from_be_bytes(buf), 10) )

\* parse_header
parse_header(buf) ==
  IF Len(buf) < 2 THEN IncompleteFrame(2 - Len(buf))
  ELSE IF OpCode_from_u8(buf[1] % 16) = "Reserved" THEN ReservedOpcode
  ELSE IF buf[2] % 128 <= 125 THEN header_with_mask(buf, buf[2] % 128, 2)
  ELSE IF buf[2] % 128 = 126
  THEN ( IF Len(buf) < 4 THEN IncompleteFrame(4 - Len(buf))
         ELSE header_with_mask(buf, buf[3] * 256 + buf[4], 4) )
  ELSE ( IF Len(buf) < 10 THEN IncompleteFrame(10 - Len(buf))
         ELSE header_with_mask(buf, u64_from_be_bytes(buf), 10) )

\* Frame::parse after parse_header returned header
parse_payload(buf, header) ==
  IF header.kind /= "Ok" THEN header
  ELSE IF Len(buf) < header.header_len + header.payload_len
  THEN IncompleteFrame(header.header_len + header.payload_len - Len(buf))
  ELSE [kind |-> "Ok", needed |-> 0,
        frame |-> [fin |-> header.fin, rsv1 |-> header.rsv1,
                   rsv2 |-> header.rsv2, rsv3 |-> header.rsv3,
                   opcode |-> header.opcode,
                   payload |->
                     IF header.mask = NoMask
                     THEN SubSeq(buf, header.header_len + 1,
                                 header.header_len + header.payload_len)
                     ELSE apply_mask(SubSeq(buf, header.header_len + 1,
                                            header.header_len + header.payload_len),
                                     header.mask)],
        consumed |-> header.header_len + header.payload_len]

\* Frame::parse
Frame_parse(buf) == parse_payload(buf, parse_header(buf))

\* ------------------------------------------------------------------------
\* Frames written and parsed back: a data frame is written, with or without
\* a mask key, and then either the bytes written are parsed, or a proper
\* prefix of them is, the caller then reading exactly the number of bytes
\* parse asks for and parsing again until it has the frame.  read_buf holds
\* the bytes handed to parse; the bytes that follow the frame on the stream
\* are zeros.
\* ------------------------------------------------------------------------
WirePayloads ==
  {<<>>, <<65>>, <<0, 255>>, <<1, 2, 3, 4, 5>>,
   Zeros(MAX_CONTROL_FRAME_PAYLOAD), Zeros(MaxWirePayload)}

MaskKeys == {NoMask, <<0, 0, 0, 0>>, <<18, 52, 86, 120>>, <<255, 128, 65, 7>>}

InitFrame ==
  /\ role = "Client"
  /\ accept_unmasked_frames = FALSE
  /\ max_frame_size = MaxFrameSize
  /\ extensions = ExtensionRegistry_new
  /\ state = "Open"
  /\ pending_pong = NoPong
  /\ read_buf = <<>>
  /\ assembler = MessageAssembler_new
  /\ pc = "frame"
  /\ \E fin \in BOOLEAN, opcode \in {"Text", "Binary", "Continuation"},
        payload \in WirePayloads, mask \in MaskKeys :
       last = [op |-> "new", frame |-> Frame_new(fin, opcode, payload),
               mask |-> mask, wire |-> <<>>, res |-> IncompleteFrame(2),
               reads |-> 0]

FrameWrite ==
  /\ pc = "frame"
  /\ last.op = "new"
  /\ last' = [last EXCEPT !.op = "write",
                          !.wire = Frame_write(last.frame, last.mask)]
  /\ UNCHANGED <<config, state, pending_pong, read_buf, assembler, pc>>

FrameParse ==
  /\ pc = "frame"
  /\ last.op = "write"
  /\ read_buf' = last.wire
  /\ last' = [last EXCEPT !.op = "parse", !.res = Frame_parse(last.wire)]
  /\ UNCHANGED <<config, state, pending_pong, assembler, pc>>

FrameParsePrefix ==
  /\ pc = "frame"
  /\ last.op = "write"
  /\ \E k \in 1..(Len(last.wire) - 1) :
       /\ read_buf' = SubSeq(last.wire, 1, k)
       /\ last' = [last EXCEPT !.op = "prefix",
                               !.res = Frame_parse(SubSeq(last.wire, 1, k))]
  /\ UNCHANGED <<config, state, pending_pong, assembler, pc>>

FrameReadNeeded ==
  /\ pc = "frame"
  /\ last.op \in {"prefix", "more"}
  /\ last.res.kind = "IncompleteFrame"
  /\ \E buf \in {SubSeq(last.wire \o Zeros(last.res.needed), 1,
                        Len(read_buf) + last.res.needed)} :
       /\ read_buf' = buf
       /\ last' = [last EXCEPT !.op = "more", !.res = Frame_parse(buf),
                               !.reads = last.reads + 1]
  /\ UNCHANGED <<config, state, pending_pong, assembler, pc>>

NextFrame == FrameWrite \/ FrameParse \/ FrameParsePrefix \/ FrameReadNeeded

SpecFrame == InitFrame /\ [][NextFrame]_vars

\* C28: parsing the bytes write produced for a data frame, with or without
\* a mask key, succeeds and returns the frame's final flag, opcode and
\* payload, and a consumed count equal to the number of bytes written.
C28_WriteParseRoundTrip ==
  (pc = "frame" /\ last.op = "parse") =>
    /\ last.res.kind = "Ok"
    /\ last.res.frame.fin = last.frame.fin
    /\ last.res.frame.opcode = last.frame.opcode
    /\ last.res.frame.payload = last.frame.payload
    /\ last.res.consumed = Len(last.wire)
    /\ Len(last.wire) = wire_size(last.frame, last.mask /= NoMask)

\* a masked frame whose payload takes the 16-bit length form, and whose
\* bytes on the wire differ from the payload, was parsed back
C28_Witness ==
  /\ pc = "frame" /\ last.op = "parse"
  /\ last.res.kind = "Ok"
  /\ last.mask = <<255, 128, 65, 7>>
  /\ Len(last.frame.payload) = MaxWirePayload
  /\ ~last.frame.fin
  /\ SubSeq(last.wire, 9, Len(last.wire)) /= last.frame.payload
  /\ last.res.frame.payload = last.frame.payload

\* C29: parse of a proper, non-empty prefix of a frame's bytes, and of what
\* the caller holds after each read of exactly the needed bytes, is either
\* the frame, once all its bytes are there, or IncompleteFrame with
\* 0 < needed <= the bytes of the frame still missing; so the reads never
\* pass the end of the frame, each adds bytes, and the frame is what the
\* last parse returns.
C29_IncompletePrefix ==
  (pc = "frame" /\ last.op \in {"prefix", "more"}) =>
    /\ Len(read_buf) <= Len(last.wire)
    /\ read_buf = SubSeq(last.wire, 1, Len(read_buf))
    /\ Len(read_buf) < Len(last.wire) =>
         /\ last.res.kind = "IncompleteFrame"
         /\ 0 < last.res.needed
         /\ last.res.needed <= Len(last.wire) - Len(read_buf)
    /\ Len(read_buf) = Len(last.wire) =>
         /\ last.res.kind = "Ok"
         /\ last.res.frame = last.frame
         /\ last.res.consumed = Len(last.wire)
    /\ last.op = "prefix" => Len(read_buf) < Len(last.wire)

\* from its first byte alone a masked frame with a 16-bit length was
\* obtained after four reads: the second header byte, the length, the mask
\* key, the payload
C29_Witness ==
  /\ pc = "frame" /\ last.op = "more"
  /\ last.res.kind = "Ok"
  /\ last.reads = 4
  /\ last.mask /= NoMask
  /\ Len(last.frame.payload) = MaxWirePayload

\* ------------------------------------------------------------------------
\* codec/framed.rs: the mask keys of WebSocketCodec.  A u32 is kept as its
\* four little-endian bytes, so that the arithmetic wraps at 2^32 as the
\* code's does.
\* ------------------------------------------------------------------------
\* u32::wrapping_add
wrapping_add(x, y) ==
  <<(x[1] + y[1]) % 256,
    (x[2] + y[2] + (x[1] + y[1]) \div 256) % 256,
    (x[3] + y[3] + (x[2] + y[2] + (x[1] + y[1]) \div 256) \div 256) % 256,
    (x[4] + y[4] + (x[3] + y[3] + (x[2] + y[2] + (x[1] + y[1]) \div 256)
                     \div 256) \div 256) % 256>>

\* the columns of the product of x and y, least significant first, each
\* with the carry of the one before
mul_column(x, y, k) ==
  IF k = 1 THEN x[1] * y[1]
  ELSE IF k = 2 THEN x[1] * y[2] + x[2] * y[1] + (x[1] * y[1]) \div 256
  ELSE IF k = 3
  THEN x[1] * y[3] + x[2] * y[2] + x[3] * y[1] + (x[1] * y[2] + x[2] * y[1]
         + (x[1] * y[1]) \div 256) \div 256
  ELSE x[1] * y[4] + x[2] * y[3] + x[3] * y[2] + x[4] * y[1]
         + (x[1] * y[3] + x[2] * y[2] + x[3] * y[1] + (x[1] * y[2] + x[2] * y[1]
              + (x[1] * y[1]) \div 256) \div 256) \div 256

\* u32::wrapping_mul
wrapping_mul(x, y) == [k \in 1..4 |-> mul_column(x, y, k) % 256]

\* b >> 13 on a u32
shr13(b) ==
  <<b[2] \div 32 + (b[3] % 32) * 8, b[3] \div 32 + (b[4] % 32) * 8,
    b[4] \div 32, 0>>

\* b ^ c on a u32
xor_u32(b, c) == [k \in 1..4 |-> xor(b[k], c[k])]

\* generate_mask's d.to_le_bytes() for the advanced counter a
mask_of_counter(a) ==
  wrapping_mul(
    xor_u32(wrapping_mul(a, <<107, 202, 235, 133>>),
            shr13(wrapping_mul(a, <<107, 202, 235, 133>>))),
    <<53, 174, 178, 194>>)

\* mutant: the advanced counter is not stored
generate_mask_Mutant(mask_counter) ==
  [mask_counter |-> mask_counter,
   mask |-> mask_of_counter(wrapping_add(mask_counter, <<185, 121, 55, 158>>))]

\* WebSocketCodec::generate_mask: the counter afterwards and the key
generate_mask(mask_counter) ==
  [mask_counter |-> wrapping_add(mask_counter, <<185, 121, 55, 158>>),
   mask |-> mask_of_counter(wrapping_add(mask_counter, <<185, 121, 55, 158>>))]

\* WebSocketCodec::write_frame with a transport that takes the bytes: the
\* counter afterwards and the bytes written
write_frame_masked(r, mask_counter, frame) ==
  IF must_mask(r)
  THEN [mask_counter |-> generate_mask(mask_counter).mask_counter,
        wire |-> Frame_write(frame, generate_mask(mask_counter).mask)]
  ELSE [mask_counter |-> mask_counter, wire |-> Frame_write(frame, NoMask)]

\* ------------------------------------------------------------------------
\* A codec writing frames: WebSocketCodec::new seeds the counter, each
\* write_frame sends one frame.  last keeps the codec's mask_counter, the
\* frames written as bytes, and the seed.
\* ------------------------------------------------------------------------
SeedBytes == {0, 1, 128, 255}

\* random_mask_seed: any u32; among those taken here are the fallback
\* 0x12345678 and the seed 0x61C88647 that the first key brings to 0
MaskSeeds ==
  {<<b1, b2, b3, b4>> : b1 \in SeedBytes, b2 \in SeedBytes,
                         b3 \in SeedBytes, b4 \in SeedBytes}
    \cup {<<120, 86, 52, 18>>, <<71, 134, 200, 97>>}

InitMask ==
  /\ role \in Role
  /\ accept_unmasked_frames = FALSE
  /\ max_frame_size = MaxFrameSize
  /\ extensions = ExtensionRegistry_new
  /\ state = "Open"
  /\ pending_pong = NoPong
  /\ read_buf = <<>>
  /\ assembler = MessageAssembler_new
  /\ pc = "mask"
  /\ \E seed \in MaskSeeds :
       last = [op |-> "new", seed |-> seed, mask_counter |-> seed,
               written |-> <<>>]

CodecWriteFrame ==
  /\ pc = "mask"
  /\ Len(last.written) < MaxMaskedFrames
  /\ \E payload \in {<<>>, <<65>>} :
     \E w \in {write_frame_masked(role, last.mask_counter,
                                  Frame_new(TRUE, "Binary", payload))} :
       last' = [last EXCEPT !.op = "write_frame",
                            !.mask_counter = w.mask_counter,
                            !.written = Append(last.written, w.wire)]
  /\ UNCHANGED <<config, state, pending_pong, read_buf, assembler, pc>>

NextMask == CodecWriteFrame

SpecMask == InitMask /\ [][NextMask]_vars

\* the mask key carried by the bytes of a frame with a short payload
MaskKeyOf(wire) == IF wire[2] >= 128 THEN SubSeq(wire, 3, 6) ELSE NoMask

\* C30: whatever the seed of the counter, every frame a Client codec
\* writes carries a 4-byte mask key, and any two consecutive frames, the
\* first two among them, carry different keys.
C30_ConsecutiveMasksDiffer ==
  (pc = "mask" /\ role = "Client") =>
    /\ \A i \in 1..Len(last.written) : Len(MaskKeyOf(last.written[i])) = 4
    /\ \A i \in 1..(Len(last.written) - 1) :
         MaskKeyOf(last.written[i]) /= MaskKeyOf(last.written[i + 1])

\* seeded with 0x61C88647 the counter passes through 0 and 0x9E3779B9: the
\* first frame carries the key 0, the second the key of 0x9E3779B9
C30_Witness ==
  /\ pc = "mask" /\ role = "Client"
  /\ last.seed = <<71, 134, 200, 97>>
  /\ Len(last.written) = 2
  /\ MaskKeyOf(last.written[1]) = <<0, 0, 0, 0>>
  /\ MaskKeyOf(last.written[2]) = <<169, 167, 98, 29>>
  /\ last.mask_counter = <<185, 121, 55, 158>>

\* ------------------------------------------------------------------------
\* C32
\* ------------------------------------------------------------------------
\* the Close message recv owes for a Close frame with this payload
CloseOf(payload, cf) ==
  IF Len(payload) = 0 THEN ~cf.some
  ELSE IF Len(payload) = 1
  THEN cf.some /\ cf.code.v = "ProtocolError"
  ELSE IF WellFormedUtf8(SubSeq(payload, 3, Len(payload)))
  THEN /\ cf.some
       /\ CloseCode_as_u16(cf.code) = payload[1] * 256 + payload[2]
       /\ cf.reason = SubSeq(payload, 3, Len(payload))
  ELSE cf.some /\ cf.code.v = "InvalidPayload" /\ cf.reason = <<>>

\* C32: the recv that reads a Close frame the validation lets through
\* returns a Close message decoded from the payload: no close frame for an
\* empty payload, ProtocolError for one byte, otherwise the big-endian code
\* with the reason, or InvalidPayload with an empty reason when the reason
\* is not UTF-8.
C32_CloseDecoding ==
  [][ ( /\ PassReadFrame
        /\ LastArrived(last'.io).op = 8
        /\ LastArrived(last'.io).masked = (role = "Server")
        /\ LastArrived(last'.io).fin /\ ~LastArrived(last'.io).rsv1
        /\ Len(LastArrived(last'.io).payload) <= MAX_CONTROL_FRAME_PAYLOAD
        /\ Len(LastArrived(last'.io).payload) <= max_frame_size )
      => /\ last'.ret.k = "Msg"
         /\ last'.ret.msg.type = "Close"
         /\ CloseOf(LastArrived(last'.io).payload, last'.ret.msg.close) ]_vars

\* a Close frame with code 1000 and the reason byte 0xFF was returned as
\* Close(InvalidPayload, "")
C32_Witness ==
  /\ Completed("recv")
  /\ DataReads(last.io) /= {}
  /\ LastArrived(last.io).op = 8
  /\ LastArrived(last.io).payload = <<3, 232, 255>>
  /\ last.ret.k = "Msg"
  /\ last.ret.msg.close.some
  /\ last.ret.msg.close.code.v = "InvalidPayload"
  /\ last.ret.msg.close.reason = <<>>

\* ------------------------------------------------------------------------
\* C33
\* ------------------------------------------------------------------------
\* the call wrote a Close frame that the transport took
WroteClose(io) ==
  \E i \in 1..Len(io) :
    io[i].t = "write" /\ io[i].frame.opcode = "Close" /\ io[i].res = "ok"

\* C33 (as claimed), for the Close frames written by close and by recv's
\* mirroring reply: the call that follows one that wrote a Close frame
\* writes no frame of any kind.
C33_Claim ==
  [][ ( /\ pc = "idle"
        /\ last.op \in {"close", "recv"}
        /\ WroteClose(last.io) )
      => Writes(last'.io) = <<>> ]_vars

\* ------------------------------------------------------------------------
\* C36
\* ------------------------------------------------------------------------
\* C36 (as claimed): a push that returns an error leaves the assembler
\* exactly as it was before the call.
C36_Claim ==
  (PushDone /\ last.out.k = "Err") => assembler = last.pre

\* ------------------------------------------------------------------------
\* C37
\* ------------------------------------------------------------------------
\* C37 (as claimed): the negotiated list holds only indices of registered
\* extensions and holds each at most once, so that encode calls no
\* extension twice for one frame.
C37_Claim ==
  pc = "registry" =>
    /\ \A i \in DOMAIN extensions.negotiated :
         extensions.negotiated[i] \in DOMAIN extensions.extensions
    /\ \A i, j \in DOMAIN extensions.negotiated :
         i /= j => extensions.negotiated[i] /= extensions.negotiated[j]
    /\ last.op = "encode" =>
         \A i, j \in DOMAIN last.calls : i /= j => last.calls[i] /= last.calls[j]

\* ------------------------------------------------------------------------
\* C38
\* ------------------------------------------------------------------------
\* C38 (as claimed): a close or send that returns an error leaves the
\* connection state as it was; after a close whose write or flush failed
\* the state is still Open.
C38_Claim ==
  (/\ pc = "idle"
   /\ last.op \in {"close", "send", "send_no_flush", "send_batch"}
   /\ last.ret.k = "Err")
    => state = last.pre

\* ------------------------------------------------------------------------
\* extensions/deflate.rs: the parameters of permessage-deflate.  An
\* extension here is [config, negotiated]; a parameter is [name, value],
\* value an Option<String>.
\* ------------------------------------------------------------------------
MIN_WINDOW_BITS == 8

MAX_WINDOW_BITS == 15

DEFAULT_WINDOW_BITS == 15

\* DeflateConfig::default, the fields that parameters set
DeflateConfig_default ==
  [server_no_context_takeover |-> FALSE, client_no_context_takeover |-> FALSE,
   server_max_window_bits |-> DEFAULT_WINDOW_BITS,
   client_max_window_bits |-> DEFAULT_WINDOW_BITS]

\* str::parse::<u8> on the parameter values that occur; -1 stands for Err
parse_u8(str) ==
  CASE str = "8" -> 8
    [] str = "10" -> 10
    [] str = "16" -> 16
    [] OTHER -> -1

\* DeflateExtension::parse_window_bits: [ok, bits]
parse_window_bits(value) ==
  IF ~value.some THEN [ok |-> TRUE, bits |-> DEFAULT_WINDOW_BITS]
  ELSE IF parse_u8(value.val) < 0 THEN [ok |-> FALSE, bits |-> 0]
  ELSE IF parse_u8(value.val) < MIN_WINDOW_BITS \/ parse_u8(value.val) > MAX_WINDOW_BITS
  THEN [ok |-> FALSE, bits |-> 0]
  ELSE [ok |-> TRUE, bits |-> parse_u8(value.val)]

\* what negotiate and configure return: the extension afterwards, Ok or
\* Err(InvalidExtension), and the response parameters
ParamsResult(d, ok, response) == [d |-> d, ok |-> ok, response |-> response]

ExtensionParam_flag(name) == [name |-> name, value |-> [some |-> FALSE, val |-> ""]]

ExtensionParam_new(name, value) == [name |-> name, value |-> [some |-> TRUE, val |-> value]]

\* bits.to_string()
bits_to_string(bits) ==
  CASE bits = 8 -> "8"
    [] bits = 10 -> "10"
    [] bits = 15 -> "15"
    [] OTHER -> "?"

\* DeflateExtension::negotiate: the loop over the parameters left, with the
\* response so far
RECURSIVE DeflateExtension_negotiate_loop(_, _, _)
DeflateExtension_negotiate_loop(d, params, response) ==
  IF params = <<>> THEN ParamsResult([d EXCEPT !.negotiated = TRUE], TRUE, response)
  ELSE IF Head(params).name = "server_no_context_takeover"
  THEN DeflateExtension_negotiate_loop(
         [d EXCEPT !.config.server_no_context_takeover = TRUE], Tail(params),
         Append(response, ExtensionParam_flag("server_no_context_takeover")))
  ELSE IF Head(params).name = "client_no_context_takeover"
  THEN DeflateExtension_negotiate_loop(
         [d EXCEPT !.config.client_no_context_takeover = TRUE], Tail(params),
         Append(response, ExtensionParam_flag("client_no_context_takeover")))
  ELSE IF Head(params).name = "server_max_window_bits"
  THEN ( IF ~parse_window_bits(Head(params).value).ok
         THEN ParamsResult(d, FALSE, <<>>)
         ELSE DeflateExtension_negotiate_loop(
                [d EXCEPT !.config.server_max_window_bits =
                            parse_window_bits(Head(params).value).bits],
                Tail(params),
                Append(response,
                       ExtensionParam_new("server_max_window_bits",
                         bits_to_string(parse_window_bits(Head(params).value).bits)))) )
  ELSE IF Head(params).name = "client_max_window_bits"
  THEN ( IF Head(params).value.some /\ ~parse_window_bits(Head(params).value).ok
         THEN ParamsResult(d, FALSE, <<>>)
         ELSE DeflateExtension_negotiate_loop(
                [d EXCEPT !.config.client_max_window_bits =
                            IF Head(params).value.some
                            THEN parse_window_bits(Head(params).value).bits
                            ELSE d.config.client_max_window_bits],
                Tail(params),
                Append(response,
                       ExtensionParam_new("client_max_window_bits",
                         bits_to_string(
                           IF Head(params).value.some
                           THEN parse_window_bits(Head(params).value).bits
                           ELSE d.config.client_max_window_bits)))) )
  ELSE ParamsResult(d, FALSE, <<>>)

\* DeflateExtension::negotiate
DeflateExtension_negotiate(d, params) ==
  DeflateExtension_negotiate_loop(d, params, <<>>)

\* DeflateExtension::configure
RECURSIVE DeflateExtension_configure(_, _)
DeflateExtension_configure(d, params) ==
  IF params = <<>> THEN ParamsResult([d EXCEPT !.negotiated = TRUE], TRUE, <<>>)
  ELSE IF Head(params).name = "server_no_context_takeover"
  THEN DeflateExtension_configure(
         [d EXCEPT !.config.server_no_context_takeover = TRUE], Tail(params))
  ELSE IF Head(params).name = "client_no_context_takeover"
  THEN DeflateExtension_configure(
         [d EXCEPT !.config.client_no_context_takeover = TRUE], Tail(params))
  ELSE IF Head(params).name = "server_max_window_bits"
  THEN ( IF ~parse_window_bits(Head(params).value).ok
         THEN ParamsResult(d, FALSE, <<>>)
         ELSE DeflateExtension_configure(
                [d EXCEPT !.config.server_max_window_bits =
                            parse_window_bits(Head(params).value).bits],
                Tail(params)) )
  ELSE IF Head(params).name = "client_max_window_bits"
  THEN ( IF ~parse_window_bits(Head(params).value).ok
         THEN ParamsResult(d, FALSE, <<>>)
         ELSE DeflateExtension_configure(
                [d EXCEPT !.config.client_max_window_bits =
                            parse_window_bits(Head(params).value).bits],
                Tail(params)) )
  ELSE ParamsResult(d, FALSE, <<>>)

\* ExtensionRegistry::negotiate for one offer of a registered extension:
\* the extension's negotiate, then its configure with the response
negotiate_offer(d, params) ==
  IF ~DeflateExtension_negotiate(d, params).ok
  THEN DeflateExtension_negotiate(d, params)
  ELSE DeflateExtension_configure(DeflateExtension_negotiate(d, params).d,
                                  DeflateExtension_negotiate(d, params).response)

\* ------------------------------------------------------------------------
\* Offers and responses reaching one DeflateExtension, held in the variable
\* extensions: a server's registry negotiates the parameters of each offer,
\* a client's configures those of each response.  last keeps the call, its
\* parameters, the extension before it and whether it returned Ok.
\* ------------------------------------------------------------------------
ParamPool ==
  { ExtensionParam_flag("server_no_context_takeover"),
    ExtensionParam_flag("client_no_context_takeover"),
    ExtensionParam_new("server_max_window_bits", "10"),
    ExtensionParam_new("server_max_window_bits", "16"),
    ExtensionParam_flag("client_max_window_bits"),
    ExtensionParam_new("client_max_window_bits", "8"),
    ExtensionParam_new("client_max_window_bits", "x"),
    ExtensionParam_flag("unknown_param") }

ParamLists == UNION {[1..n -> ParamPool] : n \in 0..MaxParams}

InitParams ==
  /\ role \in Role
  /\ accept_unmasked_frames = FALSE
  /\ max_frame_size = MaxFrameSize
  /\ extensions = [config |-> DeflateConfig_default, negotiated |-> FALSE]
  /\ state = "Open"
  /\ pending_pong = NoPong
  /\ read_buf = <<>>
  /\ assembler = MessageAssembler_new
  /\ pc = "params"
  /\ last = [op |-> "new", params |-> <<>>, pre |-> extensions, ok |-> TRUE]

DeflateNegotiate ==
  /\ pc = "params"
  /\ role = "Server"
  /\ \E params \in ParamLists :
     \E r \in {negotiate_offer(extensions, params)} :
       /\ extensions' = r.d
       /\ last' = [op |-> "negotiate", params |-> params, pre |-> extensions,
                   ok |-> r.ok]
  /\ UNCHANGED <<role, accept_unmasked_frames, max_frame_size, state,
                 pending_pong, read_buf, assembler, pc>>

DeflateConfigure ==
  /\ pc = "params"
  /\ role = "Client"
  /\ \E params \in ParamLists :
     \E r \in {DeflateExtension_configure(extensions, params)} :
       /\ extensions' = r.d
       /\ last' = [op |-> "configure", params |-> params, pre |-> extensions,
                   ok |-> r.ok]
  /\ UNCHANGED <<role, accept_unmasked_frames, max_frame_size, state,
                 pending_pong, read_buf, assembler, pc>>

NextParams == DeflateNegotiate \/ DeflateConfigure

SpecParams == InitParams /\ [][NextParams]_vars

\* C39 (as claimed): a negotiate or configure that rejects its parameter
\* list leaves the extension's configuration exactly as it was.
C39_Claim ==
  (pc = "params" /\ last.op \in {"negotiate", "configure"} /\ ~last.ok)
    => extensions.config = last.pre.config

\* ------------------------------------------------------------------------
\* protocol/handshake.rs: HandshakeResponse::write.  Strings and buffers
\* are sequences of bytes; a response is [accept, protocol, extensions],
\* protocol an Option.
\* ------------------------------------------------------------------------
CR == 13

LF == 10

\* b"HTTP/1.1 101 Switching Protocols\r\n", b"Upgrade: websocket\r\n" and
\* b"Connection: Upgrade\r\n"
StatusAndUpgrade ==
  <<72, 84, 84, 80, 47, 49, 46, 49, 32, 49, 48, 49, 32, 83, 119, 105, 116,
  99, 104, 105, 110, 103, 32, 80, 114, 111, 116, 111, 99, 111, 108, 115, 13,
  10, 85, 112, 103, 114, 97, 100, 101, 58, 32, 119, 101, 98, 115, 111, 99,
  107, 101, 116, 13, 10, 67, 111, 110, 110, 101, 99, 116, 105, 111, 110, 58,
  32, 85, 112, 103, 114, 97, 100, 101, 13, 10>>

\* "Sec-WebSocket-Accept: "
AcceptName ==
  <<83, 101, 99, 45, 87, 101, 98, 83, 111, 99, 107, 101, 116, 45, 65, 99,
  99, 101, 112, 116, 58, 32>>

\* "Sec-WebSocket-Protocol: "
ProtocolName ==
  <<83, 101, 99, 45, 87, 101, 98, 83, 111, 99, 107, 101, 116, 45, 80, 114,
  111, 116, 111, 99, 111, 108, 58, 32>>

\* "Sec-WebSocket-Extensions: "
ExtensionsName ==
  <<83, 101, 99, 45, 87, 101, 98, 83, 111, 99, 107, 101, 116, 45, 69, 120,
  116, 101, 110, 115, 105, 111, 110, 115, 58, 32>>

\* validate_header_value: Ok unless the value contains '\r' or '\n'
validate_header_value(value) ==
  ~\E i \in 1..Len(value) : value[i] = CR \/ value[i] = LF

\* what HandshakeResponse::write returns, with the buffer as it leaves it
WriteResult(buf, ok) == [buf |-> buf, ok |-> ok]

\* the loop over self.extensions
RECURSIVE write_extensions(_, _)
write_extensions(buf, exts) ==
  IF exts = <<>> THEN WriteResult(buf \o <<CR, LF>>, TRUE)
  ELSE IF ~validate_header_value(Head(exts)) THEN WriteResult(buf, FALSE)
  ELSE write_extensions(buf \o ExtensionsName \o Head(exts) \o <<CR, LF>>,
                        Tail(exts))

\* from the protocol header on
write_protocol(buf, response) ==
  IF ~response.protocol.some THEN write_extensions(buf, response.extensions)
  ELSE IF ~validate_header_value(response.protocol.val) THEN WriteResult(buf, FALSE)
  ELSE write_extensions(buf \o ProtocolName \o response.protocol.val \o <<CR, LF>>,
                        response.extensions)

\* HandshakeResponse::write
HandshakeResponse_write(response, buf) ==
  write_protocol(buf \o StatusAndUpgrade \o AcceptName \o response.accept
                   \o <<CR, LF>>,
                 response)

\* ------------------------------------------------------------------------
\* A server answering a handshake: a response is written into the caller's
\* buffer, held in read_buf, and the caller then sends the buffer whatever
\* write returned, as the test server and the autobahn example do.  last
\* keeps the response, the buffer before the call, the result and the bytes
\* sent.
\* ------------------------------------------------------------------------
\* "dGhl", "chat", and values with CR LF or a bare LF inside
HeaderValues == {<<100, 71, 104, 108>>, <<99, 104, 97, 116>>,
                 <<99, 13, 10, 88, 58, 101>>, <<112, 10, 88>>}

Responses ==
  { [accept |-> a, protocol |-> p, extensions |-> e] :
      a \in {<<100, 71, 104, 108>>, <<99, 13, 10, 88, 58, 101>>},
      p \in {[some |-> FALSE, val |-> <<>>]}
              \cup {[some |-> TRUE, val |-> v] : v \in HeaderValues},
      e \in UNION {[1..n -> {<<112>>, <<112, 10, 88>>}] :
                     n \in 0..MaxHeaderExtensions} }

InitHandshake ==
  /\ role = "Server"
  /\ accept_unmasked_frames = FALSE
  /\ max_frame_size = MaxFrameSize
  /\ extensions = ExtensionRegistry_new
  /\ state = "Open"
  /\ pending_pong = NoPong
  /\ read_buf \in {<<>>, <<42>>}
  /\ assembler = MessageAssembler_new
  /\ pc = "handshake"
  /\ \E response \in Responses :
       last = [op |-> "new", response |-> response, pre |-> read_buf,
               ok |-> TRUE, sent |-> <<>>]

HandshakeWrite ==
  /\ pc = "handshake"
  /\ last.op = "new"
  /\ \E r \in {HandshakeResponse_write(last.response, read_buf)} :
       /\ read_buf' = r.buf
       /\ last' = [last EXCEPT !.op = "write", !.ok = r.ok]
  /\ UNCHANGED <<config, state, pending_pong, assembler, pc>>

HandshakeSend ==
  /\ pc = "handshake"
  /\ last.op = "write"
  /\ last' = [last EXCEPT !.op = "write_all",
                          !.sent = SubSeq(read_buf, Len(last.pre) + 1, Len(read_buf))]
  /\ UNCHANGED <<config, state, pending_pong, read_buf, assembler, pc>>

NextHandshake == HandshakeWrite \/ HandshakeSend

SpecHandshake == InitHandshake /\ [][NextHandshake]_vars

\* the header values the response emits
EmittedValues(response) ==
  {response.accept}
    \cup (IF response.protocol.some THEN {response.protocol.val} ELSE {})
    \cup {response.extensions[i] : i \in DOMAIN response.extensions}

\* C31 (as claimed): a write that succeeds emitted no header value with a
\* CR or LF in it, the Sec-WebSocket-Accept value included.
C31_Claim ==
  (pc = "handshake" /\ last.op = "write" /\ last.ok) =>
    \A value \in EmittedValues(last.response) :
      \A i \in 1..Len(value) : value[i] /= CR /\ value[i] /= LF

\* C40 (as claimed): a write that returns an error leaves the caller's
\* buffer as it was, and a caller that sends the buffer all the same sends
\* nothing.
C40_Claim ==
  (pc = "handshake" /\ ~last.ok) =>
    /\ last.op = "write" => read_buf = last.pre
    /\ last.op = "write_all" => last.sent = <<>>

\* ------------------------------------------------------------------------
\* Two connections end to end.  The variables are the receiving
\* connection; the sending one has the opposite role, the same Config and
\* the same extension registry, and stays Open.  Its transport takes every
\* byte, and what it wrote reaches the receiver frame by frame, in order.
\* last keeps the messages send accepted, the frames in flight, the
\* messages recv returned and recv's last result.
\* ------------------------------------------------------------------------
\* the opposite role
Role_peer(r) == IF r = "Client" THEN "Server" ELSE "Client"

\* a frame as WebSocketCodec::write_frame of a codec with role r puts it on
\* the wire, all of its bytes arriving together
Frame_on_wire(r, frame) ==
  [fin |-> frame.fin, rsv1 |-> frame.rsv1, rsv2 |-> frame.rsv2,
   rsv3 |-> frame.rsv3, op |-> OpCode_as_u8(frame.opcode),
   masked |-> must_mask(r), payload |-> frame.payload, avail |-> "full"]

\* data messages within max_message_size, one of them a Text whose second
\* character is cut by the fragmenter
PeerMessages ==
  { Message_Text(<<65>>), Message_Text(<<65, 195, 169>>),
    Message_Binary(<<>>), Message_Binary(Zeros(MaxMessageSize)) }

InitPeers ==
  /\ role \in Role
  /\ accept_unmasked_frames = FALSE
  /\ max_frame_size = MaxFrameSize
  /\ extensions \in {ExtensionRegistry_new, DeflateRegistry}
  /\ state = "Open"
  /\ pending_pong = NoPong
  /\ read_buf = <<>>
  /\ assembler = MessageAssembler_new
  /\ pc = "peers"
  /\ last = [op |-> "new", sent |-> <<>>, wire |-> <<>>, received |-> <<>>,
             ret |-> RetOk]

\* the peer calls send
PeerSend ==
  /\ pc = "peers"
  /\ Len(last.sent) < MaxInFlight
  /\ \E m \in PeerMessages :
     \E r \in {send("Open", m, NewLog, 0)} :
       /\ r.ret = RetOk
       /\ last' = [last EXCEPT
                     !.op = "send",
                     !.sent = Append(last.sent, m),
                     !.wire = last.wire
                                \o [i \in 1..Len(Writes(r.c.io)) |->
                                      Frame_on_wire(Role_peer(role),
                                                    Writes(r.c.io)[i])]]
  /\ UNCHANGED <<config, state, pending_pong, read_buf, assembler, pc>>

\* recv on the receiving connection reads the next frame in flight
PeerRecv ==
  /\ pc = "peers"
  /\ last.wire /= <<>>
  /\ last.ret.k /= "Err"
  /\ can_receive(state)
  /\ \E r \in {recv_iter(role, accept_unmasked_frames, state, pending_pong,
                         read_buf, assembler, NewLog,
                         [k |-> "frame", w |-> Head(last.wire)], 0)} :
       /\ state' = r.state
       /\ pending_pong' = r.pending_pong
       /\ read_buf' = r.read_buf
       /\ assembler' = r.assembler
       /\ last' = [last EXCEPT
                     !.op = "recv",
                     !.wire = Tail(last.wire),
                     !.received = IF r.ret.k = "Msg"
                                  THEN Append(last.received, r.ret.msg)
                                  ELSE last.received,
                     !.ret = r.ret]
  /\ UNCHANGED <<config, pc>>

NextPeers == PeerSend \/ PeerRecv

SpecPeers == InitPeers /\ [][NextPeers]_vars

\* C34 (as claimed): recv on the peer never fails on what send wrote; the
\* messages it has returned are the first of those sent, with their types
\* and payloads, and all of them once every frame has been read.
C34_Claim ==
  pc = "peers" =>
    /\ last.ret.k /= "Err"
    /\ Len(last.received) <= Len(last.sent)
    /\ last.received = SubSeq(last.sent, 1, Len(last.received))
    /\ last.wire = <<>> => last.received = last.sent

\* the same on connections without negotiated extensions
PeersWithoutExtensions ==
  (pc = "peers" /\ negotiated_count(extensions) = 0) =>
    /\ last.ret.k /= "Err"
    /\ last.received = SubSeq(last.sent, 1, Len(last.received))
    /\ last.wire = <<>> => last.received = last.sent

\* ------------------------------------------------------------------------
\* The close handshake between two connections (tests/harness/client.rs
\* close, tests/concurrency.rs test_close_handshake_under_load): this
\* connection and its peer, of the opposite role and the same Config, each
\* reading the frames the other wrote; last.peer holds the peer's fields
\* ------------------------------------------------------------------------
\* the most messages the peer sends before the handshake
MaxPeerSends == 1

\* framed.rs lines 140-154: the frames of a call's log as the other side
\* reads them
wire_of(r, io) ==
  [i \in 1..Len(Writes(io)) |-> Frame_on_wire(r, Writes(io)[i])]

\* messages the peer sends while it is open
PairMessages == {Message_Text(<<65>>), Message_Ping(<<112>>)}

\* close was called with a reason that does not fit a control frame
reason_too_long(reason) == Len(reason) + 2 > MAX_CONTROL_FRAME_PAYLOAD

InitPair ==
  /\ role \in Role
  /\ accept_unmasked_frames = FALSE
  /\ max_frame_size = MaxFrameSize
  /\ extensions = ExtensionRegistry_new
  /\ state = "Open"
  /\ pending_pong = NoPong
  /\ read_buf = <<>>
  /\ assembler = MessageAssembler_new
  /\ pc = "pair"
  /\ last = [op |-> "new",
             peer |-> [state |-> "Open", pending_pong |-> NoPong,
                       read_buf |-> <<>>, assembler |-> MessageAssembler_new],
             to_peer |-> <<>>, to_self |-> <<>>,
             called |-> {}, closers |-> {}, long |-> FALSE, sends |-> 0,
             ret |-> RetOk, peer_ret |-> RetOk]

\* this connection calls close
PairClose ==
  /\ pc = "pair"
  /\ "self" \notin last.called
  /\ \E cf \in CloseArgs :
     \E r \in {close(state, cf.code, cf.reason, NewLog, 0)} :
       /\ state' = r.state
       /\ last' = [last EXCEPT
                     !.op = "close",
                     !.to_peer = last.to_peer \o wire_of(role, r.c.io),
                     !.called = last.called \cup {"self"},
                     !.closers = IF r.ret = RetOk
                                 THEN last.closers \cup {"self"}
                                 ELSE last.closers,
                     !.long = last.long
                                \/ (r.ret = RetOk /\ reason_too_long(cf.reason)),
                     !.ret = r.ret]
  /\ UNCHANGED <<config, pending_pong, read_buf, assembler, pc>>

\* the peer calls close
PairPeerClose ==
  /\ pc = "pair"
  /\ "peer" \notin last.called
  /\ \E cf \in CloseArgs :
     \E r \in {close(last.peer.state, cf.code, cf.reason, NewLog, 0)} :
       last' = [last EXCEPT
                  !.op = "peer_close",
                  !.peer.state = r.state,
                  !.to_self = last.to_self \o wire_of(Role_peer(role), r.c.io),
                  !.called = last.called \cup {"peer"},
                  !.closers = IF r.ret = RetOk
                              THEN last.closers \cup {"peer"}
                              ELSE last.closers,
                  !.long = last.long
                             \/ (r.ret = RetOk /\ reason_too_long(cf.reason)),
                  !.peer_ret = r.ret]
  /\ UNCHANGED <<config, state, pending_pong, read_buf, assembler, pc>>

\* the peer sends a message before it has called close
PairPeerSend ==
  /\ pc = "pair"
  /\ last.sends < MaxPeerSends
  /\ "peer" \notin last.called
  /\ \E m \in PairMessages :
     \E r \in {send(last.peer.state, m, NewLog, 0)} :
       /\ r.ret = RetOk
       /\ last' = [last EXCEPT
                     !.op = "peer_send",
                     !.to_self = last.to_self
                                   \o wire_of(Role_peer(role), r.c.io),
                     !.sends = last.sends + 1,
                     !.peer_ret = r.ret]
  /\ UNCHANGED <<config, state, pending_pong, read_buf, assembler, pc>>

\* recv on this connection reads the next frame the peer wrote
PairRecv ==
  /\ pc = "pair"
  /\ last.to_self /= <<>>
  /\ can_receive(state)
  /\ \E r \in {recv_iter(role, accept_unmasked_frames, state, pending_pong,
                         read_buf, assembler, NewLog,
                         [k |-> "frame", w |-> Head(last.to_self)], 0)} :
       /\ state' = r.state
       /\ pending_pong' = r.pending_pong
       /\ read_buf' = r.read_buf
       /\ assembler' = r.assembler
       /\ last' = [last EXCEPT
                     !.op = "recv",
                     !.to_self = Tail(last.to_self),
                     !.to_peer = last.to_peer \o wire_of(role, r.c.io),
                     !.ret = r.ret]
  /\ UNCHANGED <<config, pc>>

\* recv on the peer reads the next frame this connection wrote
PairPeerRecv ==
  /\ pc = "pair"
  /\ last.to_peer /= <<>>
  /\ can_receive(last.peer.state)
  /\ \E r \in {recv_iter(Role_peer(role), accept_unmasked_frames,
                         last.peer.state, last.peer.pending_pong,
                         last.peer.read_buf, last.peer.assembler, NewLog,
                         [k |-> "frame", w |-> Head(last.to_peer)], 0)} :
       last' = [last EXCEPT
                  !.op = "peer_recv",
                  !.peer = [state |-> r.state,
                            pending_pong |-> r.pending_pong,
                            read_buf |-> r.read_buf,
                            assembler |-> r.assembler],
                  !.to_peer = Tail(last.to_peer),
                  !.to_self = last.to_self \o wire_of(Role_peer(role), r.c.io),
                  !.peer_ret = r.ret]
  /\ UNCHANGED <<config, state, pending_pong, read_buf, assembler, pc>>

NextPair ==
  PairClose \/ PairPeerClose \/ PairPeerSend \/ PairRecv \/ PairPeerRecv

\* both applications keep calling recv: a frame in flight is read in the end
SpecPair ==
  InitPair /\ [][NextPair]_vars /\ WF_vars(PairRecv) /\ WF_vars(PairPeerRecv)

BothClosed == state = "Closed" /\ last.peer.state = "Closed"

\* C35 (as claimed): once either connection, or both, called close with
\* success and both keep calling recv, both connections reach Closed.
C35_Claim == (pc = "pair" /\ last.closers /= {}) ~> BothClosed

\* the same for reasons that fit a control frame
PairCompletes ==
  (pc = "pair" /\ last.closers /= {} /\ ~last.long) ~> (BothClosed \/ last.long)

\* the recv that takes a closing connection to Closed returns the Close
\* message of the other side
PairRecvReturnsClose ==
  [][(pc = "pair" /\ state = "Closing" /\ state' = "Closed")
       => (last'.ret.k = "Msg" /\ last'.ret.msg.type = "Close")]_vars

====
